---------------------------- MODULE Spec2Model ----------------------------
(***************************************************************************)
(* A model of the PyChunkedGraph edit engine (backend/graphoperation.py)   *)
(* and of the ingest of abstract layers (ingest/initialization/            *)
(* abstract_layers.py).                                                    *)
(*                                                                         *)
(* The wide-column store is one set of timestamped cells, `table`.  A cell *)
(* is [col, key, ts, val, aux]; a write to the same (col, key, ts)         *)
(* replaces the cell.  Node IDs are integers layer*1000 + chunk*100 + seg; *)
(* supervoxels (layer 1) are the integers 1..NumSV.                        *)
(*                                                                         *)
(* Spec is the edit engine: workers run merge, split and multicut edits    *)
(* on an ingested three-layer graph.  FairSpec adds weak fairness of the   *)
(* lock loop.  IngestSpec is add_layer building the layers 3..n_layers on  *)
(* top of the atomic layer with a pool of _write_components tasks.         *)
(* PairSpec is two clients with one edit each on components that share no  *)
(* root.  HandlerSpec is the HTTP layer (app/segmentation/common.py): the  *)
(* merge, split, undo and redo handlers on top of the edit engine.         *)
(* RollbackSpec is the operation log under all_user_operations and         *)
(* handle_rollback, CacheSpec the handle cache of get_cg and get_log_db    *)
(* (app_utils.py), and DecodeSpec the replay of a log record by            *)
(* from_log_record.  ConstructSpec is the edit engine fed with edge lists  *)
(* as callers pass them to the constructors, ReadSpec the chunk-parallel   *)
(* read of _read_children_chunks, and BooleanSpec a call of toboolean.     *)
(* The variable app holds the state of the layer that the specification    *)
(* at hand is about.                                                       *)
(***************************************************************************)
EXTENDS Integers, Sequences, FiniteSets, TLC

VARIABLES
    table,      \* the store: hierarchy rows, atomic-edge cells, log rows
    counter,    \* per-chunk segment counter of the ID allocator
    minted,     \* every node ID the allocator has handed out
    mintCount,  \* how many node IDs the allocator has handed out
    lock,       \* Lock column: root -> [owner, ts, expired]
    clock,      \* server time
    nextOp,     \* operation-ID allocator
    started,    \* number of edits started so far
    expiries,   \* number of leases that ran out so far
    wk,         \* per worker: the edit it runs and its position in apply
    attempts,   \* history: every bulk_write an edit issued
    commits,    \* history: every edit whose bulk_write was applied
    n_layers,              \* GraphMeta: number of layers
    use_skip_connections,  \* GraphMeta: skip-connection policy
    ingest,                \* the add_layer call in progress
    app                    \* the HTTP layer: chunk grid, request threads, message bus

vars == <<table, counter, minted, mintCount, lock, clock, nextOp, started, expiries,
          wk, attempts, commits, n_layers, use_skip_connections, ingest, app>>

storeVars == <<table, counter, minted, mintCount>>
editVars == <<lock, clock, nextOp, started, expiries, wk, attempts, commits>>
metaVars == <<n_layers, use_skip_connections>>
appVars == <<app>>

(***************************************************************************)
(* Bounds of the model.                                                    *)
(***************************************************************************)
NumSV == 4
NumWorkers == 2
MaxOps == 3
MaxTries == 2
MaxEditMints == 1
MaxExpiries == 1
NCpu == 2

SV == 1..NumSV
Workers == 1..NumWorkers
NoNode == 0
NoOp == 0

(***************************************************************************)
(* IDCodec.                                                                *)
(***************************************************************************)
NodeId(layer, chunk, seg) == layer * 1000 + chunk * 100 + seg
get_chunk_layer(n) == IF n < 1000 THEN 1 ELSE n \div 1000
get_chunk_id(n) == (n \div 100) * 100
get_segment_id(n) == n % 100
SvChunk(sv) == (sv - 1) \div 2
RootChunkId(L) == NodeId(L, 0, 0)

Min(S) == CHOOSE x \in S : \A y \in S : x <= y
Max(S) == CHOOSE x \in S : \A y \in S : y <= x

RECURSIVE SortedSeq(_)
SortedSeq(S) == IF S = {} THEN <<>> ELSE <<Min(S)>> \o SortedSeq(S \ {Min(S)})

Range(s) == {s[i] : i \in 1..Len(s)}

unique(S) == SortedSeq(S)

(***************************************************************************)
(* Store: cells and reads.                                                 *)
(***************************************************************************)
NoAux == [kind |-> "none"]
Cell(col, key, ts, val) == [col |-> col, key |-> key, ts |-> ts, val |-> val, aux |-> NoAux]

mutate_row(T, row) ==
    {c \in T : ~(c.col = row.col /\ c.key = row.key /\ c.ts = row.ts)} \cup {row}

RECURSIVE ApplyRows(_, _)
ApplyRows(T, rows) ==
    IF rows = <<>> THEN T ELSE ApplyRows(mutate_row(T, Head(rows)), Tail(rows))

CellsAt(T, col, key, t) == {c \in T : c.col = col /\ c.key = key /\ c.ts <= t}
Newest(cs) == CHOOSE c \in cs : \A d \in cs : d.ts <= c.ts

get_parent(T, n, t) ==
    LET cs == CellsAt(T, "Parent", n, t)
    IN IF cs = {} THEN NoNode ELSE Min(Newest(cs).val)

get_children(T, n, t) ==
    LET cs == CellsAt(T, "Child", n, t)
    IN IF cs = {} THEN {} ELSE Newest(cs).val

RECURSIVE get_root(_, _, _)
get_root(T, n, t) ==
    LET p == get_parent(T, n, t)
    IN IF p = NoNode THEN n ELSE get_root(T, p, t)

get_roots(T, nodes, t) == {get_root(T, n, t) : n \in nodes}

EdgeKey(a, b) == IF a < b THEN a * 10 + b ELSE b * 10 + a
AllEdgeKeys == {EdgeKey(a, b) : a, b \in SV}
EdgesAt(T, t) ==
    {k \in AllEdgeKeys :
        LET cs == CellsAt(T, "Edge", k, t) IN cs # {} /\ Newest(cs).val # {}}
Joined(E, a, b) == a # b /\ EdgeKey(a, b) \in E

RECURSIVE Grow(_, _, _)
Grow(C, E, S) ==
    LET N == C \cup {t \in S : \E u \in C : Joined(E, u, t)}
    IN IF N = C THEN C ELSE Grow(N, E, S)

connected_components(S, E) == {Grow({s}, E, S) : s \in S}

(***************************************************************************)
(* ID allocator: the next unused segments of a chunk.                      *)
(***************************************************************************)
Layers == 2..4
ChunkIds == {NodeId(l, c, 0) : l \in Layers, c \in 0..((NumSV - 1) \div 2)}

get_unique_node_id_range(cnt, chunk_id, step) ==
    [i \in 1..step |-> chunk_id + cnt[chunk_id] + i]

Reserve(cnt, chunk_id, step) == [cnt EXCEPT ![chunk_id] = @ + step]

(***************************************************************************)
(* Layered connected-component recomputation (cg_edits.add_edges and       *)
(* cg_edits.remove_edges): S are the supervoxels under the affected roots, *)
(* S2 those under the affected L2 nodes, E the atomic edges after the edit.*)
(***************************************************************************)
SameChunk(k) == SvChunk(k \div 10) = SvChunk(k % 10)
IntraEdges(E) == {k \in E : SameChunk(k)}

Rank(C, CCs) == Cardinality({D \in CCs : Min(D) < Min(C)})

Recompute(T, cnt, L, tau, S, S2, E) ==
    LET ccs2 == connected_components(S2, IntraEdges(E))
        chunks2 == {NodeId(2, SvChunk(s), 0) : s \in S2}
        InChunk == [c \in chunks2 |-> {C \in ccs2 : NodeId(2, SvChunk(Min(C)), 0) = c}]
        L2Id == [C \in ccs2 |->
                    LET c == NodeId(2, SvChunk(Min(C)), 0)
                    IN get_unique_node_id_range(cnt, c, Cardinality(InChunk[c]))
                           [Rank(C, InChunk[c]) + 1]]
        NewParent == [s \in S |->
                        IF s \in S2 THEN L2Id[CHOOSE C \in ccs2 : s \in C]
                        ELSE get_parent(T, s, tau)]
        ccsR == connected_components(S, E)
        RootId == [C \in ccsR |->
                     get_unique_node_id_range(cnt, RootChunkId(L), Cardinality(ccsR))
                         [Rank(C, ccsR) + 1]]
        l2of == [C \in ccsR |-> {NewParent[s] : s \in C}]
        l2all == {NewParent[s] : s \in S}
        rootOfL2 == [m \in l2all |-> RootId[CHOOSE C \in ccsR : m \in l2of[C]]]
        svs2 == SortedSeq(S2)
        ccs2seq == [i \in 1..Cardinality(ccs2) |->
                      CHOOSE C \in ccs2 : Rank(C, ccs2) = i - 1]
        l2seq == SortedSeq(l2all)
        ccsRseq == [i \in 1..Cardinality(ccsR) |->
                      CHOOSE C \in ccsR : Rank(C, ccsR) = i - 1]
        rowsA == [i \in 1..Len(svs2) |-> Cell("Parent", svs2[i], tau, {NewParent[svs2[i]]})]
        rowsB == [i \in 1..Len(ccs2seq) |-> Cell("Child", L2Id[ccs2seq[i]], tau, ccs2seq[i])]
        rowsC == [i \in 1..Len(l2seq) |-> Cell("Parent", l2seq[i], tau, {rootOfL2[l2seq[i]]})]
        rowsD == [i \in 1..Len(ccsRseq) |->
                    Cell("Child", RootId[ccsRseq[i]], tau, l2of[ccsRseq[i]])]
        cnt2 == [c \in DOMAIN cnt |->
                    IF c = RootChunkId(L) THEN cnt[c] + Cardinality(ccsR)
                    ELSE IF c \in chunks2 THEN cnt[c] + Cardinality(InChunk[c])
                    ELSE cnt[c]]
    IN [new_root_ids |-> [i \in 1..Len(ccsRseq) |-> RootId[ccsRseq[i]]],
        new_lvl2_ids |-> [i \in 1..Len(ccs2seq) |-> L2Id[ccs2seq[i]]],
        rows |-> rowsA \o rowsB \o rowsC \o rowsD,
        counter |-> cnt2]

EdgeRows(keys, tau, val) ==
    LET ks == SortedSeq(keys) IN [i \in 1..Len(ks) |-> Cell("Edge", ks[i], tau, val)]

Endpoints(keys) == {k \div 10 : k \in keys} \cup {k % 10 : k \in keys}

(* Variant of the recomputation that rebuilds every component of the      *)
(* graph, not only those under the affected roots.                         *)
EditCompute_whole_graph(T, cnt, L, tau, addE, remE) ==
    LET ends == Endpoints(addE \cup remE)
        AL2 == {get_parent(T, s, tau) : s \in ends}
        AR == get_roots(T, ends, tau)
        S == SV
        S2 == {s \in SV : get_parent(T, s, tau) \in AL2}
        E == (EdgesAt(T, tau) \cup addE) \ remE
        r == Recompute(T, cnt, L, tau, S, S2, E)
    IN [r EXCEPT !.rows = @ \o EdgeRows(addE, tau, {1}) \o EdgeRows(remE, tau, {})]

EditCompute(T, cnt, L, tau, addE, remE) ==
    LET ends == Endpoints(addE \cup remE)
        AL2 == {get_parent(T, s, tau) : s \in ends}
        AR == get_roots(T, ends, tau)
        S == {s \in SV : get_root(T, s, tau) \in AR}
        S2 == {s \in SV : get_parent(T, s, tau) \in AL2}
        E == (EdgesAt(T, tau) \cup addE) \ remE
        r == Recompute(T, cnt, L, tau, S, S2, E)
    IN [r EXCEPT !.rows = @ \o EdgeRows(addE, tau, {1}) \o EdgeRows(remE, tau, {})]

add_edges(T, cnt, L, atomic_edges, time_stamp) ==
    EditCompute(T, cnt, L, time_stamp, atomic_edges, {})

(* Variant of the removal that leaves the atomic edges in place. *)
remove_edges_keeps_edges(T, cnt, L, atomic_edges, time_stamp) ==
    EditCompute(T, cnt, L, time_stamp, atomic_edges, {})

remove_edges(T, cnt, L, atomic_edges, time_stamp) ==
    EditCompute(T, cnt, L, time_stamp, {}, atomic_edges)

(***************************************************************************)
(* Min-cut inside the bounding box (ChunkedGraph._run_multicut): the       *)
(* smallest edge sets of the box whose removal separates source from sink. *)
(***************************************************************************)
Separates(E, cut, box, a, b) == b \notin Grow({a}, E \ cut, box)

run_multicut(T, tau, a, b, box) ==
    LET E == {k \in EdgesAt(T, tau) : Endpoints({k}) \subseteq box}
        cuts == {c \in SUBSET E : Separates(E, c, box, a, b)}
    IN {c \in cuts : \A d \in cuts : Cardinality(c) <= Cardinality(d)}

(***************************************************************************)
(* Log records (create_log_record of the three operations).                *)
(***************************************************************************)
LogCell(operation_id, timestamp, root_ids, aux) ==
    [col |-> "Log", key |-> operation_id, ts |-> timestamp, val |-> Range(root_ids),
     aux |-> aux]

(* None: the value of a coordinate or affinity argument that is not given. *)
None == <<>>

(* val_dict: the columns of a log row and their values.  cols are the      *)
(* columns the row has; edges is the value of AddedEdge resp. RemovedEdge. *)
val_dict(user_id, cols, edges, src_ids, snk_ids, src_coords, snk_coords, aff, bbox) ==
    [kind |-> "log", UserID |-> user_id, cols |-> cols, edges |-> edges,
     source_ids |-> src_ids, sink_ids |-> snk_ids,
     source_coords |-> src_coords, sink_coords |-> snk_coords,
     affinities |-> aff, bbox_offset |-> bbox]

(* The columns that are written only when the operation has the value. *)
CoordinateCols(e) ==
    (IF e.source_coords # None THEN {"SourceCoordinate"} ELSE {})
       \cup (IF e.sink_coords # None THEN {"SinkCoordinate"} ELSE {})

AffinityCols(e) == IF e.affinities # None THEN {"Affinity"} ELSE {}

(* Variant of the merge log record that leaves out the RootID column. *)
Merge_create_log_record_rootless(e, operation_id, timestamp, root_ids) ==
    LogCell(operation_id, timestamp, <<>>,
            val_dict(e.user_id,
                     {"UserID", "AddedEdge"} \cup CoordinateCols(e) \cup AffinityCols(e),
                     e.edges, {}, {}, e.source_coords, e.sink_coords, e.affinities, {}))

Merge_create_log_record(e, operation_id, timestamp, root_ids) ==
    LogCell(operation_id, timestamp, root_ids,
            val_dict(e.user_id,
                     {"UserID", "RootID", "AddedEdge"} \cup CoordinateCols(e)
                        \cup AffinityCols(e),
                     e.edges, {}, {}, e.source_coords, e.sink_coords, e.affinities, {}))

Split_create_log_record(e, operation_id, timestamp, root_ids) ==
    LogCell(operation_id, timestamp, root_ids,
            val_dict(e.user_id,
                     {"UserID", "RootID", "RemovedEdge"} \cup CoordinateCols(e),
                     e.edges, {}, {}, e.source_coords, e.sink_coords, None, {}))

Multicut_create_log_record(e, operation_id, timestamp, root_ids) ==
    LogCell(operation_id, timestamp, root_ids,
            val_dict(e.user_id,
                     {"UserID", "RootID", "SourceCoordinate", "SinkCoordinate",
                      "SourceID", "SinkID"}
                        \cup (IF e.box # {} THEN {"BoundingBoxOffset"} ELSE {}),
                     {}, e.source_ids, e.sink_ids, e.source_coords, e.sink_coords,
                     None, e.box))

create_log_record(e, operation_id, timestamp, root_ids) ==
    IF e.kind = "merge" THEN Merge_create_log_record(e, operation_id, timestamp, root_ids)
    ELSE IF e.kind = "split" THEN Split_create_log_record(e, operation_id, timestamp, root_ids)
    ELSE Multicut_create_log_record(e, operation_id, timestamp, root_ids)

(***************************************************************************)
(* Locks (BackendStore.lock / unlock, conditional bulk_write).             *)
(***************************************************************************)
Held(lk, root, operation_id) ==
    root \in DOMAIN lk /\ lk[root].owner = operation_id /\ ~lk[root].expired

(* Variant of the lock test that ignores the current holder. *)
CanLock_always(lk, root, operation_id) == TRUE

CanLock(lk, root, operation_id) ==
    root \notin DOMAIN lk \/ lk[root].expired \/ lk[root].owner = operation_id

lock_root(lk, root, operation_id, now) ==
    [r \in DOMAIN lk \cup {root} |->
        IF r = root THEN [owner |-> operation_id, ts |-> now, expired |-> FALSE] ELSE lk[r]]

unlock_roots(lk, roots, operation_id) ==
    [r \in {x \in DOMAIN lk : ~(x \in roots /\ lk[x].owner = operation_id)} |-> lk[r]]

LocksHeld(lk, lock_keys, operation_id) == \A r \in lock_keys : Held(lk, r, operation_id)

bulk_write(T, lk, rows, lock_keys, operation_id) ==
    IF LocksHeld(lk, lock_keys, operation_id) THEN ApplyRows(T, rows) ELSE T

(***************************************************************************)
(* Edits: the requests a worker may run.                                   *)
(***************************************************************************)
NoEdit == [kind |-> "none", user_id |-> "u1", source_ids |-> {}, sink_ids |-> {},
           edges |-> {}, box |-> {},
           source_coords |-> None, sink_coords |-> None, affinities |-> None]

MkEdit(k, u, a, b, full) ==
    [kind |-> k, user_id |-> u, source_ids |-> {a}, sink_ids |-> {b},
     edges |-> IF k = "multicut" THEN {} ELSE {EdgeKey(a, b)},
     box |-> IF k # "multicut" THEN {} ELSE IF full THEN SV ELSE {a, b},
     source_coords |-> None, sink_coords |-> None, affinities |-> None]

(* The requests clients submit: a merge of an intra-chunk and of a         *)
(* cross-chunk pair, a split, a multicut in a tight bounding box, and a    *)
(* merge one of whose endpoints is an L2 node.                             *)
Requests ==
    {MkEdit("merge", "u1", 1, 2, FALSE), MkEdit("merge", "u1", 1, 3, FALSE),
     MkEdit("split", "u1", 1, 2, FALSE), MkEdit("multicut", "u1", 1, 2, FALSE),
     MkEdit("merge", "u1", 1, NodeId(2, 1, 1), FALSE)}

IdleWorker ==
    [pc |-> "idle", edit |-> NoEdit, root_ids |-> <<>>, operation_id |-> NoOp,
     locked |-> <<>>, tries |-> 0, timestamp |-> 0,
     new_root_ids |-> <<>>, new_lvl2_ids |-> <<>>, rows |-> <<>>, outcome |-> "none"]

LockedRoots(w) == {wk[w].locked[i][1] : i \in 1..Len(wk[w].locked)}
LockTimes(w) == {wk[w].locked[i][2] : i \in 1..Len(wk[w].locked)}

(***************************************************************************)
(* The graph after ingest: components of the initial atomic edges.         *)
(***************************************************************************)
InitEdgeSets == {{EdgeKey(2, 3)}}

ZeroCounter == [c \in ChunkIds |-> 0]

InitGraph(E0) == Recompute({}, ZeroCounter, 3, 0, SV, SV, E0)

(* The HTTP layer at rest: chunk 0 of layer 2 sits at the origin of the    *)
(* chunk grid and chunk 1 at app.grid; no request is being handled and     *)
(* nothing has been published.  seq numbers the requests in the order in   *)
(* which they arrive.                                                      *)
NoRequest == [nodes |-> <<>>, flag |-> FALSE, operation_id |-> NoOp]

NoThread == [pc |-> "idle", seq |-> 0, endpoint |-> "none", request |-> NoRequest,
             raised |-> "none", response |-> "none"]

NoApp == [grid |-> <<1, 0, 0>>, threads |-> [w \in Workers |-> NoThread], bus |-> {}]

NoIngest == [pc |-> "off", layer_id |-> 0, parent_chunk_id |-> 0, tasks |-> <<>>, next_layer |-> 0]

Init ==
    /\ n_layers = 3
    /\ use_skip_connections = FALSE
    /\ \E E0 \in InitEdgeSets :
          /\ table = ApplyRows({}, InitGraph(E0).rows \o EdgeRows(E0, 0, {1}))
          /\ counter = InitGraph(E0).counter
          /\ minted = Range(InitGraph(E0).new_root_ids) \cup Range(InitGraph(E0).new_lvl2_ids)
          /\ mintCount = Len(InitGraph(E0).new_root_ids) + Len(InitGraph(E0).new_lvl2_ids)
    /\ lock = <<>>
    /\ clock = 0
    /\ nextOp = 0
    /\ started = 0
    /\ expiries = 0
    /\ wk = [w \in Workers |-> IdleWorker]
    /\ attempts = {}
    /\ commits = {}
    /\ ingest = NoIngest
    /\ app = NoApp

(***************************************************************************)
(* GraphEditOperation.__init__ and the first lines of apply: the edit is   *)
(* constructed and the roots of its endpoints are resolved at the current  *)
(* time, before any lock is taken.                                         *)
(***************************************************************************)
(* Variant of the constructor without the layer check of its endpoints. *)
ConstructorOk_any_layer(e) == e.source_ids \cap e.sink_ids = {}

(* Variant of the constructor that checks the layers only. *)
ConstructorOk_layers_only(e) ==
    /\ \A source_id \in e.source_ids : get_chunk_layer(source_id) = 1
    /\ \A sink_id \in e.sink_ids : get_chunk_layer(sink_id) = 1

ConstructorOk(e) ==
    /\ e.source_ids \cap e.sink_ids = {}
    /\ \A source_id \in e.source_ids : get_chunk_layer(source_id) = 1
    /\ \A sink_id \in e.sink_ids : get_chunk_layer(sink_id) = 1

(* Variant of the failure before the locks that reports every error as a  *)
(* PostconditionError.                                                     *)
Failed_as_postcondition(e, error) ==
    [IdleWorker EXCEPT !.pc = "done", !.edit = e, !.outcome = "PostconditionError"]

Failed(e, error) == [IdleWorker EXCEPT !.pc = "done", !.edit = e, !.outcome = error]

(* Variant of apply that never checks the number of roots. *)
single_root_any(e, root_ids) == TRUE

(* Split and multicut go on only when all their endpoints have one root.   *)
single_root(e, root_ids) == e.kind = "merge" \/ Len(root_ids) <= 1

StartEdit(w, e) ==
    LET root_ids == unique(get_roots(table, e.source_ids \cup e.sink_ids, clock))
        proceeds == ConstructorOk(e) /\ single_root(e, root_ids)
    IN /\ wk' = [wk EXCEPT ![w] =
                IF ~proceeds THEN Failed(e, "PreconditionError")
                ELSE [IdleWorker EXCEPT !.pc = "lock", !.edit = e,
                                        !.root_ids = root_ids,
                                        !.operation_id = nextOp + 1]]
       /\ nextOp' = IF proceeds THEN nextOp + 1 ELSE nextOp

apply_get_roots(w) ==
    /\ wk[w].pc \in {"idle", "done"}
    /\ started < MaxOps
    /\ (w = 1 \/ wk[1].pc # "idle")
    /\ \E e \in Requests : StartEdit(w, e)
    /\ started' = started + 1
    /\ UNCHANGED <<storeVars, lock, clock, expiries, attempts, commits, metaVars, appVars, ingest>>

(***************************************************************************)
(* RootLock.__enter__: lock the roots in ascending order, one attempt per  *)
(* step; a failed attempt releases what was acquired and is retried a      *)
(* bounded number of times.                                                *)
(***************************************************************************)
(* Variant of the acquisition order: descending root IDs. *)
LockOrder_descending(root_ids) ==
    [i \in 1..Len(root_ids) |-> SortedSeq(Range(root_ids))[Len(root_ids) + 1 - i]]

LockOrder(root_ids) == SortedSeq(Range(root_ids))

RootLock_lock(w) ==
    /\ wk[w].pc = "lock"
    /\ LET order == LockOrder(wk[w].root_ids)
           pos == Len(wk[w].locked) + 1
           root == order[pos]
       IN IF CanLock(lock, root, wk[w].operation_id)
          THEN /\ lock' = lock_root(lock, root, wk[w].operation_id, clock + 1)
               /\ clock' = clock + 1
               /\ wk' = [wk EXCEPT ![w].locked = Append(@, <<root, clock + 1>>),
                                   ![w].pc = IF pos = Len(order) THEN "locked" ELSE "lock"]
          ELSE /\ lock' = unlock_roots(lock, LockedRoots(w), wk[w].operation_id)
               /\ clock' = clock
               /\ wk' = [wk EXCEPT ![w].locked = <<>>,
                                   ![w].tries = @ + 1,
                                   ![w].pc = IF wk[w].tries + 1 >= MaxTries THEN "done" ELSE "lock",
                                   ![w].outcome = IF wk[w].tries + 1 >= MaxTries
                                                  THEN "LockingError" ELSE "none"]
    /\ UNCHANGED <<storeVars, nextOp, started, expiries, attempts, commits, metaVars, appVars, ingest>>

(***************************************************************************)
(* The body of apply under the lock: read the lock timestamp, compute the  *)
(* edit, build the log row and put it first.                               *)
(***************************************************************************)
read_consolidated_lock_timestamp(w) == LockTimes(w)

(* Variant that stamps the log row with the time of the call instead of    *)
(* the lock timestamp.                                                     *)
Computed_stamps_now(w, e, tau, r) ==
    [wk[w] EXCEPT !.pc = "write", !.edit = e, !.timestamp = tau,
                  !.new_root_ids = r.new_root_ids,
                  !.new_lvl2_ids = r.new_lvl2_ids,
                  !.rows = <<create_log_record(e, wk[w].operation_id, clock + 1, r.new_root_ids)>>
                           \o r.rows]

(* Variant that puts the log row behind the hierarchy mutations. *)
Computed_log_last(w, e, tau, r) ==
    [wk[w] EXCEPT !.pc = "write", !.edit = e, !.timestamp = tau,
                  !.new_root_ids = r.new_root_ids,
                  !.new_lvl2_ids = r.new_lvl2_ids,
                  !.rows = r.rows
                           \o <<create_log_record(e, wk[w].operation_id, tau, r.new_root_ids)>>]

Computed(w, e, tau, r) ==
    [wk[w] EXCEPT !.pc = "write", !.edit = e, !.timestamp = tau,
                  !.new_root_ids = r.new_root_ids,
                  !.new_lvl2_ids = r.new_lvl2_ids,
                  !.rows = <<create_log_record(e, wk[w].operation_id, tau, r.new_root_ids)>>
                           \o r.rows]

Allocate(r) ==
    /\ counter' = r.counter
    /\ minted' = minted \cup Range(r.new_root_ids) \cup Range(r.new_lvl2_ids)
    /\ mintCount' = mintCount + Len(r.new_root_ids) + Len(r.new_lvl2_ids)

(* Variant of an exception that leaves apply without RootLock.__exit__. *)
Raise_skips_exit(w, error) == wk' = [wk EXCEPT ![w].pc = "done", ![w].outcome = error]

Raise(w, error) == wk' = [wk EXCEPT ![w].pc = "exit", ![w].outcome = error]

(* Variant of the check of the cut that lets an empty cut through. *)
no_cut_never(removed_edges) == FALSE

no_cut(removed_edges) == removed_edges = {}

apply_edit(w) ==
    /\ wk[w].pc = "locked"
    /\ \E tau \in read_consolidated_lock_timestamp(w) :
          LET e == wk[w].edit IN
          IF e.kind = "merge"
          THEN LET r == add_edges(table, counter, n_layers, e.edges, tau)
               IN Allocate(r) /\ wk' = [wk EXCEPT ![w] = Computed(w, e, tau, r)]
          ELSE IF e.kind = "split"
          THEN LET r == remove_edges(table, counter, n_layers, e.edges, tau)
               IN Allocate(r) /\ wk' = [wk EXCEPT ![w] = Computed(w, e, tau, r)]
          ELSE \E removed_edges \in run_multicut(table, clock, Min(e.source_ids),
                                                  Min(e.sink_ids), e.box) :
                  IF no_cut(removed_edges)
                  THEN /\ Raise(w, "PostconditionError")
                       /\ UNCHANGED <<counter, minted, mintCount>>
                  ELSE LET r == remove_edges(table, counter, n_layers, removed_edges, tau)
                           e2 == [e EXCEPT !.edges = removed_edges]
                       IN Allocate(r) /\ wk' = [wk EXCEPT ![w] = Computed(w, e2, tau, r)]
    /\ UNCHANGED <<table, lock, clock, nextOp, started, expiries, attempts, commits, metaVars, appVars, ingest>>

(* An error inside the edit computation (a store read that fails).         *)
apply_edit_error(w) ==
    /\ wk[w].pc = "locked"
    /\ Raise(w, "InternalError")
    /\ UNCHANGED <<storeVars, lock, clock, nextOp, started, expiries, attempts, commits, metaVars, appVars, ingest>>

(***************************************************************************)
(* The conditional bulk_write that ends apply.                             *)
(***************************************************************************)
BulkWriteStep(w, lock_keys) ==
    LET o == wk[w].operation_id
        applied == LocksHeld(lock, lock_keys, o)
    IN /\ wk[w].pc = "write"
       /\ table' = bulk_write(table, lock, wk[w].rows, lock_keys, o)
       /\ attempts' = attempts \cup
             {[operation_id |-> o, rows |-> wk[w].rows,
               held |-> LocksHeld(lock, LockedRoots(w), o)]}
       /\ commits' = IF applied
                     THEN commits \cup
                            {[operation_id |-> o, kind |-> wk[w].edit.kind,
                              timestamp |-> wk[w].timestamp, lock_times |-> LockTimes(w),
                              new_root_ids |-> Range(wk[w].new_root_ids),
                              rows |-> wk[w].rows]}
                     ELSE commits
       /\ wk' = [wk EXCEPT ![w].pc = "exit",
                           ![w].outcome = IF applied THEN "ok" ELSE "LockingError"]
       /\ UNCHANGED <<counter, minted, mintCount, lock, clock, nextOp, started, expiries, metaVars, appVars, ingest>>

(* Variant of the final write that passes no lock keys. *)
apply_bulk_write_unconditional(w) == BulkWriteStep(w, {})

apply_bulk_write(w) == BulkWriteStep(w, LockedRoots(w))

(***************************************************************************)
(* RootLock.__exit__: runs on every path that leaves the with block.       *)
(***************************************************************************)
RootLock_exit(w) ==
    /\ wk[w].pc = "exit"
    /\ lock' = unlock_roots(lock, LockedRoots(w), wk[w].operation_id)
    /\ wk' = [wk EXCEPT ![w].pc = "done"]
    /\ UNCHANGED <<storeVars, clock, nextOp, started, expiries, attempts, commits, metaVars, appVars, ingest>>

(* The lease of a lock runs out while its holder is inside the with block, *)
(* between the edit computation and the conditional write.                 *)
InsideLock(operation_id) ==
    \E w \in Workers : wk[w].operation_id = operation_id /\ wk[w].pc = "write"

expire_lease(w) ==
    /\ expiries < MaxExpiries
    /\ \E root \in LockedRoots(w) :
          /\ Held(lock, root, wk[w].operation_id)
          /\ InsideLock(lock[root].owner)
          /\ lock' = [lock EXCEPT ![root].expired = TRUE]
    /\ expiries' = expiries + 1
    /\ UNCHANGED <<storeVars, clock, nextOp, started, wk, attempts, commits, metaVars, appVars, ingest>>

WorkerStep(w) ==
    \/ apply_get_roots(w)
    \/ RootLock_lock(w)
    \/ apply_edit(w)
    \/ apply_edit_error(w)
    \/ apply_bulk_write(w)
    \/ RootLock_exit(w)

Next ==
    \/ \E w \in Workers : WorkerStep(w)
    \/ \E w \in Workers : expire_lease(w)

Spec == Init /\ [][Next]_vars

(* Every worker that can take a step eventually takes one. *)
FairSpec == Spec /\ \A w \in Workers : WF_vars(RootLock_lock(w))

(***************************************************************************)
(* Ingest of the abstract layers (ingest/initialization/abstract_layers.py)*)
(* on top of the atomic layer: supervoxels, their L2 parents and the       *)
(* atomic edges are in the store, layers 3..n_layers are built by          *)
(* add_layer, one layer after the other, each with one parent chunk.       *)
(***************************************************************************)
IngestEdgeSets ==
    {{}, {EdgeKey(2, 3)}, {EdgeKey(1, 2), EdgeKey(2, 3)}, {EdgeKey(1, 3), EdgeKey(1, 4)}}

AtomicLayer(E0) ==
    LET ccs2 == connected_components(SV, IntraEdges(E0))
        chunkOf(C) == NodeId(2, SvChunk(Min(C)), 0)
        InChunk(c) == {C \in ccs2 : chunkOf(C) = c}
        L2Id(C) == chunkOf(C) + Rank(C, InChunk(chunkOf(C))) + 1
        svs == SortedSeq(SV)
        seq == [i \in 1..Cardinality(ccs2) |-> CHOOSE C \in ccs2 : Rank(C, ccs2) = i - 1]
    IN [rows |-> [i \in 1..Len(svs) |->
                     Cell("Parent", svs[i], 0, {L2Id(CHOOSE C \in ccs2 : svs[i] \in C)})]
                 \o [i \in 1..Len(seq) |-> Cell("Child", L2Id(seq[i]), 0, seq[i])]
                 \o EdgeRows(E0, 0, {1}),
        counter |-> [c \in ChunkIds |-> Cardinality(InChunk(c))],
        ids |-> {L2Id(C) : C \in ccs2}]

IngestInit ==
    /\ n_layers \in 3..4
    /\ use_skip_connections \in BOOLEAN
    /\ \E E0 \in IngestEdgeSets :
          /\ table = ApplyRows({}, AtomicLayer(E0).rows)
          /\ counter = AtomicLayer(E0).counter
          /\ minted = AtomicLayer(E0).ids
          /\ mintCount = Cardinality(AtomicLayer(E0).ids)
    /\ lock = <<>>
    /\ clock = 0
    /\ nextOp = 0
    /\ started = 0
    /\ expiries = 0
    /\ wk = [w \in Workers |-> IdleWorker]
    /\ attempts = {}
    /\ commits = {}
    /\ ingest = [NoIngest EXCEPT !.next_layer = 3]
    /\ app = NoApp

(* _read_chunk and _filter_latest_ids: the rows of a chunk that have a     *)
(* Child column, sorted by descending segment ID; a row is kept when no    *)
(* row before it in that order has the same largest child.                 *)
range_read_chunk(T, chunk_id) ==
    {c.key : c \in {d \in T : d.col = "Child" /\ get_chunk_id(d.key) = chunk_id}}

(* np.argsort(segment_ids)[::-1]: the positions by descending value. *)
argsort_reversed(segment_ids) ==
    LET n == Len(segment_ids)
        Before(i, j) == segment_ids[i] > segment_ids[j] \/ (segment_ids[i] = segment_ids[j] /\ i > j)
    IN [k \in 1..n |-> CHOOSE i \in 1..n : Cardinality({j \in 1..n : Before(j, i)}) = k - 1]

(* Variant of the filter that keeps the first row in range-read order. *)
_filter_latest_ids_unsorted(row_ids, segment_ids, max_children_ids) ==
    LET n == Len(row_ids)
        kept[k \in 0..n] ==
            IF k = 0 THEN <<>>
            ELSE IF \E j \in 1..(k - 1) : max_children_ids[j] = max_children_ids[k]
                 THEN kept[k - 1] ELSE Append(kept[k - 1], row_ids[k])
    IN kept[n]

_filter_latest_ids(row_ids, segment_ids, max_children_ids) ==
    LET n == Len(row_ids)
        sorting == argsort_reversed(segment_ids)
        sorted_row_ids == [k \in 1..n |-> row_ids[sorting[k]]]
        max_child_ids == [k \in 1..n |-> max_children_ids[sorting[k]]]
        max_child_ids_occ_so_far ==
            [i_row \in 1..n |->
                Cardinality({j \in 1..(i_row - 1) : max_child_ids[j] = max_child_ids[i_row]})]
        kept[k \in 0..n] ==
            IF k = 0 THEN <<>>
            ELSE IF max_child_ids_occ_so_far[k] = 0
                 THEN Append(kept[k - 1], sorted_row_ids[k]) ELSE kept[k - 1]
    IN kept[n]

_read_chunk(T, chunk_id, t) ==
    LET row_ids == SortedSeq(range_read_chunk(T, chunk_id))
        max_children_ids == [i \in 1..Len(row_ids) |-> Max(get_children(T, row_ids[i], t))]
        segment_ids == [i \in 1..Len(row_ids) |-> get_segment_id(row_ids[i])]
    IN _filter_latest_ids(row_ids, segment_ids, max_children_ids)

ChildrenChunks(layer_id) == {c \in ChunkIds : get_chunk_layer(c) = layer_id - 1}

_read_children_chunks(T, layer_id, t) ==
    UNION {Range(_read_chunk(T, c, t)) : c \in ChildrenChunks(layer_id)}

(* _get_cross_edges: the atomic edges that cross a chunk boundary of the   *)
(* layer below, lifted to the nodes of that layer.                         *)
ChunkAtLayer(sv, layer) == IF layer = 2 THEN SvChunk(sv) ELSE 0

RECURSIVE get_root_stop(_, _, _, _)
get_root_stop(T, n, stop_layer, t) ==
    LET p == get_parent(T, n, t)
    IN IF get_chunk_layer(n) >= stop_layer \/ p = NoNode THEN n
       ELSE get_root_stop(T, p, stop_layer, t)

_get_cross_edges(T, layer_id, t) ==
    {<<get_root_stop(T, k \div 10, layer_id - 1, t), get_root_stop(T, k % 10, layer_id - 1, t)>> :
        k \in {e \in EdgesAt(T, t) :
                  ChunkAtLayer(e \div 10, layer_id - 1) # ChunkAtLayer(e % 10, layer_id - 1)}}

(* Variant of the component search that follows no edge. *)
GrowIds_no_edges(C, edge_ids, nodes) == C

RECURSIVE GrowIds(_, _, _)
GrowIds(C, edge_ids, nodes) ==
    LET N == C \cup {n \in nodes : \E u \in C : <<u, n>> \in edge_ids \/ <<n, u>> \in edge_ids}
    IN IF N = C THEN C ELSE GrowIds(N, edge_ids, nodes)

(* The components add_layer hands to _write_connected_components, in the   *)
(* order of their smallest node.                                           *)
add_layer_ccs(T, layer_id, t) ==
    LET children_ids == _read_children_chunks(T, layer_id, t)
        edge_ids == _get_cross_edges(T, layer_id, t)
        nodes == children_ids \cup {e[1] : e \in edge_ids} \cup {e[2] : e \in edge_ids}
        ccs == {GrowIds({n}, edge_ids, nodes) : n \in nodes}
    IN [i \in 1..Cardinality(ccs) |-> CHOOSE C \in ccs : Rank(C, ccs) = i - 1]

chunked(l, n) ==
    LET m == IF n < 1 THEN Len(l) ELSE n
    IN [i \in 1..((Len(l) + m - 1) \div m) |->
           SubSeq(l, (i - 1) * m + 1, IF i * m < Len(l) THEN i * m ELSE Len(l))]

QueuedTask(ccs) ==
    [pc |-> "queued", ccs |-> ccs, iteration |-> 1, rows |-> <<>>, parent_ids |-> <<>>]

add_layer(layer_id) ==
    /\ ingest.pc = "off"
    /\ ingest.next_layer = layer_id
    /\ layer_id <= n_layers
    /\ LET ccs == add_layer_ccs(table, layer_id, clock)
           chunked_ccs == chunked(ccs, Len(ccs) \div NCpu)
       IN ingest' = [ingest EXCEPT
                        !.pc = "run", !.layer_id = layer_id,
                        !.parent_chunk_id = NodeId(layer_id, 0, 0),
                        !.tasks = IF ccs = <<>> THEN <<>>
                                  ELSE [i \in 1..Len(chunked_ccs) |-> QueuedTask(chunked_ccs[i])]]
    /\ UNCHANGED <<storeVars, editVars, metaVars, appVars>>

(* _write_components: the components of one task, by the layer of their    *)
(* parent.                                                                 *)
(* Variant of the grouping that never promotes a component. *)
cc_connections_no_skip(ccs, layer_id) ==
    [l \in {layer_id, n_layers} |-> IF l = layer_id THEN ccs ELSE <<>>]

cc_connections(ccs, layer_id) ==
    [l \in {layer_id, n_layers} |->
        SelectSeq(ccs, LAMBDA node_ids :
            IF use_skip_connections /\ Cardinality(node_ids) = 1
            THEN l = n_layers ELSE l = layer_id)]

get_parent_chunk_id_dict(parent_chunk_id) ==
    [l \in get_chunk_layer(parent_chunk_id)..n_layers |-> NodeId(l, 0, 0)]

(* Variant that gives every component the first reserved ID. *)
parent_id_first(reserved_parent_ids, i_cc) == reserved_parent_ids[1]

parent_id(reserved_parent_ids, i_cc) == reserved_parent_ids[i_cc]

RECURSIVE ComponentRows(_, _, _, _)
ComponentRows(conns, reserved_parent_ids, i_cc, time_stamp) ==
    IF i_cc > Len(conns) THEN <<>>
    ELSE LET node_ids == SortedSeq(conns[i_cc])
             p == parent_id(reserved_parent_ids, i_cc)
         IN [j \in 1..Len(node_ids) |-> Cell("Parent", node_ids[j], time_stamp, {p})]
            \o <<Cell("Child", p, time_stamp, conns[i_cc])>>
            \o ComponentRows(conns, reserved_parent_ids, i_cc + 1, time_stamp)

ActiveTasks == {i \in 1..Len(ingest.tasks) : ingest.tasks[i].pc \in {"loop", "write"}}

(* One pass of the loop over (layer_id, n_layers) in _write_components:    *)
(* reserve the parent IDs of the pass and append its rows.                 *)
_write_components_loop(i) ==
    /\ ingest.pc = "run"
    /\ i \in 1..Len(ingest.tasks)
    /\ ingest.tasks[i].pc \in {"queued", "loop"}
    /\ ingest.tasks[i].pc = "queued" => Cardinality(ActiveTasks) < NCpu
    /\ LET task == ingest.tasks[i]
           parent_layer_id == <<ingest.layer_id, n_layers>>[task.iteration]
           conns == cc_connections(task.ccs, ingest.layer_id)[parent_layer_id]
           parent_chunk_id == get_parent_chunk_id_dict(ingest.parent_chunk_id)[parent_layer_id]
           reserved_parent_ids == get_unique_node_id_range(counter, parent_chunk_id, Len(conns))
       IN /\ counter' = Reserve(counter, parent_chunk_id, Len(conns))
          /\ minted' = minted \cup Range(reserved_parent_ids)
          /\ mintCount' = mintCount + Len(conns)
          /\ ingest' = [ingest EXCEPT
                !.tasks[i].pc = IF task.iteration = 2 THEN "write" ELSE "loop",
                !.tasks[i].iteration = @ + 1,
                !.tasks[i].parent_ids =
                    @ \o [i_cc \in 1..Len(conns) |-> parent_id(reserved_parent_ids, i_cc)],
                !.tasks[i].rows = @ \o ComponentRows(conns, reserved_parent_ids, 1, clock)]
    /\ UNCHANGED <<table, editVars, metaVars, appVars>>

_write_components_bulk_write(i) ==
    /\ ingest.pc = "run"
    /\ i \in 1..Len(ingest.tasks)
    /\ ingest.tasks[i].pc = "write"
    /\ table' = ApplyRows(table, ingest.tasks[i].rows)
    /\ ingest' = [ingest EXCEPT !.tasks[i].pc = "done"]
    /\ UNCHANGED <<counter, minted, mintCount, editVars, metaVars, appVars>>

(* add_layer returns when every task of the pool has written its rows. *)
add_layer_return ==
    /\ ingest.pc = "run"
    /\ \A i \in 1..Len(ingest.tasks) : ingest.tasks[i].pc = "done"
    /\ ingest' = [ingest EXCEPT !.pc = "off", !.tasks = <<>>, !.next_layer = @ + 1]
    /\ UNCHANGED <<storeVars, editVars, metaVars, appVars>>

(* An edit that runs beside the ingest takes a node ID from the allocator  *)
(* (an edit mints its new root in the root chunk).                         *)
edit_allocate(chunk_id) ==
    /\ chunk_id = RootChunkId(n_layers)
    /\ started < MaxEditMints
    /\ started' = started + 1
    /\ counter' = Reserve(counter, chunk_id, 1)
    /\ minted' = minted \cup Range(get_unique_node_id_range(counter, chunk_id, 1))
    /\ mintCount' = mintCount + 1
    /\ UNCHANGED <<table, lock, clock, nextOp, expiries, wk, attempts, commits, metaVars, appVars, ingest>>

IngestNext ==
    \/ \E layer_id \in Layers : add_layer(layer_id)
    \/ \E i \in 1..NumSV : _write_components_loop(i)
    \/ \E i \in 1..NumSV : _write_components_bulk_write(i)
    \/ add_layer_return
    \/ \E chunk_id \in ChunkIds : edit_allocate(chunk_id)

IngestSpec == IngestInit /\ [][IngestNext]_vars

(***************************************************************************)
(* Two clients, one edit each, on components that share no root: worker 1  *)
(* edits the pair (1, 4), worker 2 the pair (2, 3).  Both run apply        *)
(* (graphoperation.py 172-207, 279-319) step by step, interleaved; no      *)
(* lease runs out.                                                         *)
(***************************************************************************)
PairEdgeSets == {{EdgeKey(2, 3)}, {EdgeKey(1, 4), EdgeKey(2, 3)}}

PairRequests ==
    [w \in Workers |->
        IF w = 1
        THEN {MkEdit("merge", "u1", 1, 4, FALSE), MkEdit("split", "u1", 1, 4, FALSE)}
        ELSE IF w = 2
        THEN {MkEdit("merge", "u2", 2, 3, FALSE), MkEdit("split", "u2", 2, 3, FALSE)}
        ELSE {}]

PairInit ==
    /\ n_layers = 3
    /\ use_skip_connections = FALSE
    /\ \E E0 \in PairEdgeSets :
          /\ table = ApplyRows({}, InitGraph(E0).rows \o EdgeRows(E0, 0, {1}))
          /\ counter = InitGraph(E0).counter
          /\ minted = Range(InitGraph(E0).new_root_ids) \cup Range(InitGraph(E0).new_lvl2_ids)
          /\ mintCount = Len(InitGraph(E0).new_root_ids) + Len(InitGraph(E0).new_lvl2_ids)
    /\ lock = <<>>
    /\ clock = 0
    /\ nextOp = 0
    /\ started = 0
    /\ expiries = 0
    /\ wk = [w \in Workers |-> IdleWorker]
    /\ attempts = {}
    /\ commits = {}
    /\ ingest = NoIngest
    /\ app = NoApp

(* A client submits an edit whose endpoints pass the checks of apply.      *)
pair_get_roots(w) ==
    /\ wk[w].pc = "idle"
    /\ \E e \in PairRequests[w] :
          /\ single_root(e, unique(get_roots(table, e.source_ids \cup e.sink_ids, clock)))
          /\ StartEdit(w, e)
    /\ started' = started + 1
    /\ UNCHANGED <<storeVars, lock, clock, expiries, attempts, commits, metaVars, appVars, ingest>>

PairNext ==
    \/ \E w \in Workers : pair_get_roots(w)
    \/ \E w \in Workers : RootLock_lock(w)
    \/ \E w \in Workers : apply_edit(w)
    \/ \E w \in Workers : apply_bulk_write(w)
    \/ \E w \in Workers : RootLock_exit(w)

PairSpec == PairInit /\ [][PairNext]_vars

(* apply run alone from state st = [table, counter] at time tau.           *)
execute(st, e, operation_id, tau) ==
    LET r == IF e.kind = "merge"
             THEN add_edges(st.table, st.counter, 3, e.edges, tau)
             ELSE remove_edges(st.table, st.counter, 3, e.edges, tau)
    IN [table |-> ApplyRows(st.table,
                            <<create_log_record(e, operation_id, tau, r.new_root_ids)>>
                            \o r.rows),
        counter |-> r.counter]

(***************************************************************************)
(* The HTTP layer (app/segmentation/common.py): a request thread runs      *)
(* handle_merge, handle_split, handle_undo or handle_redo; the handler     *)
(* checks the request, calls the edit engine, and turns the result or the  *)
(* exception of the engine into the response and the publication on the    *)
(* message bus.                                                            *)
(***************************************************************************)
MaxRequests == 2
MaxMergeChunkDistance == 3

(* Where chunk 1 of layer 2 lies in the chunk grid (chunk 0 is the origin).*)
Grids == {<<1, 0, 0>>, <<3, -3, 3>>, <<0, -4, 0>>, <<4, 1, 0>>}

MergeNodes == {<<1, 3>>, <<2, 3>>}
SplitNodes == {<<2, 3>>, <<1, 2>>}

HandlerInit ==
    /\ n_layers = 3
    /\ use_skip_connections = FALSE
    /\ \E E0 \in InitEdgeSets :
          /\ table = ApplyRows({}, InitGraph(E0).rows \o EdgeRows(E0, 0, {1}))
          /\ counter = InitGraph(E0).counter
          /\ minted = Range(InitGraph(E0).new_root_ids) \cup Range(InitGraph(E0).new_lvl2_ids)
          /\ mintCount = Len(InitGraph(E0).new_root_ids) + Len(InitGraph(E0).new_lvl2_ids)
    /\ lock = <<>>
    /\ clock = 0
    /\ nextOp = 0
    /\ started = 0
    /\ expiries = 0
    /\ wk = [w \in Workers |-> IdleWorker]
    /\ attempts = {}
    /\ commits = {}
    /\ ingest = NoIngest
    /\ \E grid \in Grids : app = [NoApp EXCEPT !.grid = grid]

(* The supervoxels found at the coordinates of the request. *)
handle_supervoxel_id_lookup(nodes) == nodes

get_chunk_coordinates(node_id) ==
    IF SvChunk(node_id) = 0 THEN <<0, 0, 0>> ELSE app.grid

Abs(x) == IF x < 0 THEN -x ELSE x

chunk_coord_delta(atomic_edge) ==
    [i \in 1..3 |-> get_chunk_coordinates(atomic_edge[1])[i]
                      - get_chunk_coordinates(atomic_edge[2])[i]]

(* Variant of the distance check that also rejects a distance of three. *)
too_far_from_three(delta) == \E i \in 1..3 : Abs(delta[i]) >= MaxMergeChunkDistance

too_far(delta) == \E i \in 1..3 : Abs(delta[i]) > MaxMergeChunkDistance

(* The except clauses of the handlers: the kind the caller receives for an *)
(* exception of the engine.                                                *)
raise_to_caller(endpoint, error) ==
    IF error = "LockingError" THEN "InternalServerError"
    ELSE IF error = "PreconditionError" THEN "BadRequest"
    ELSE IF error = "PostconditionError" /\ endpoint \in {"undo", "redo", "rollback"}
         THEN "BadRequest"
    ELSE error

Free(w) == app.threads[w].pc \in {"idle", "responded"} /\ started < MaxRequests

(* The request ends with an exception before the engine takes a step. *)
Reject(w, endpoint, request, raised) ==
    /\ app' = [app EXCEPT !.threads[w] =
                   [pc |-> "responded", seq |-> started + 1, endpoint |-> endpoint,
                    request |-> request,
                    raised |-> raised, response |-> raise_to_caller(endpoint, raised)]]
    /\ started' = started + 1
    /\ UNCHANGED <<wk, nextOp>>

(* The request enters apply of the edit e. *)
Call(w, endpoint, request, e) ==
    /\ StartEdit(w, e)
    /\ app' = [app EXCEPT !.threads[w] =
                   [pc |-> "engine", seq |-> started + 1, endpoint |-> endpoint,
                    request |-> request,
                    raised |-> "none", response |-> "none"]]
    /\ started' = started + 1

(* ChunkedGraph.add_edges: a merge of two supervoxels of one root is       *)
(* turned down unless allow_same_segment_merge is set.                     *)
(* Variant that lets every merge through. *)
same_segment_never(e) == FALSE

same_segment(e) == Cardinality(get_roots(table, e.source_ids \cup e.sink_ids, clock)) = 1

cg_add_edges(w, request, e, allow_same_segment_merge) ==
    IF ~allow_same_segment_merge /\ same_segment(e)
    THEN Reject(w, "merge", request, "BadRequest")
    ELSE Call(w, "merge", request, e)

handle_merge(w) ==
    /\ Free(w)
    /\ \E nodes \in MergeNodes, allow_same_segment_merge \in BOOLEAN :
          LET atomic_edge == handle_supervoxel_id_lookup(nodes)
              request == [nodes |-> nodes, flag |-> allow_same_segment_merge,
                          operation_id |-> NoOp]
          IN IF too_far(chunk_coord_delta(atomic_edge))
             THEN Reject(w, "merge", request, "BadRequest")
             ELSE cg_add_edges(w, request,
                               MkEdit("merge", "u1", atomic_edge[1], atomic_edge[2], FALSE),
                               allow_same_segment_merge)
    /\ UNCHANGED <<storeVars, lock, clock, expiries, attempts, commits, metaVars, ingest>>

(* ChunkedGraph.remove_edges: a multicut when mincut is set, else a split  *)
(* of the edge between source and sink.                                    *)
cg_remove_edges(w, request, sv_ids, mincut) ==
    Call(w, "split", request,
         MkEdit(IF mincut THEN "multicut" ELSE "split", "u1", sv_ids[1], sv_ids[2], FALSE))

handle_split(w) ==
    /\ Free(w)
    /\ \E nodes \in SplitNodes, mincut \in BOOLEAN :
          cg_remove_edges(w, [nodes |-> nodes, flag |-> mincut, operation_id |-> NoOp],
                          handle_supervoxel_id_lookup(nodes), mincut)
    /\ UNCHANGED <<storeVars, lock, clock, expiries, attempts, commits, metaVars, ingest>>

(* ChunkedGraph.undo_operation and redo_operation: the edit of the log row *)
(* is run again (redo) or its inverse is run (undo); a log row without     *)
(* added or removed edges cannot be replayed.                              *)
LogRows == {c \in table : c.col = "Log"}

Replayable(c) == c.aux.edges # {}

LoggedEdit(c, inverse) ==
    LET k == Min(c.aux.edges)
        added == "AddedEdge" \in c.aux.cols
    IN MkEdit(IF added = inverse THEN "split" ELSE "merge", "u1", k \div 10, k % 10, FALSE)

cg_replay(w, endpoint, c) ==
    LET request == [nodes |-> <<>>, flag |-> FALSE, operation_id |-> c.key]
    IN IF Replayable(c)
       THEN Call(w, endpoint, request, LoggedEdit(c, endpoint = "undo"))
       ELSE Reject(w, endpoint, request, "PreconditionError")

handle_undo(w) ==
    /\ Free(w)
    /\ \E c \in LogRows : cg_replay(w, "undo", c)
    /\ UNCHANGED <<storeVars, lock, clock, expiries, attempts, commits, metaVars, ingest>>

handle_redo(w) ==
    /\ Free(w)
    /\ \E c \in LogRows : cg_replay(w, "redo", c)
    /\ UNCHANGED <<storeVars, lock, clock, expiries, attempts, commits, metaVars, ingest>>

(* The engine has returned or raised: the except clauses, then             *)
(* publish_edit when the edit has new L2 IDs.  A publication that cannot   *)
(* be delivered raises out of the handler.                                 *)
publish_edit(bus, operation_id, new_lvl2_ids) ==
    bus \cup {[operation_id |-> operation_id, new_lvl2_ids |-> Range(new_lvl2_ids)]}

(* Variant of the return that publishes the new L2 IDs of every edit that  *)
(* has computed some, whether or not the engine has raised.                *)
handle_return_publishes_regardless(w) ==
    /\ app.threads[w].pc = "engine"
    /\ wk[w].pc = "done"
    /\ LET t == app.threads[w]
       IN app' = [app EXCEPT
                     !.threads[w] =
                         [t EXCEPT !.pc = "responded",
                                   !.raised = IF wk[w].outcome = "ok" THEN "none"
                                              ELSE wk[w].outcome,
                                   !.response = raise_to_caller(t.endpoint, wk[w].outcome)],
                     !.bus = IF Len(wk[w].new_lvl2_ids) > 0
                             THEN publish_edit(@, wk[w].operation_id, wk[w].new_lvl2_ids)
                             ELSE @]
    /\ UNCHANGED <<storeVars, editVars, metaVars, ingest>>

handle_return(w) ==
    /\ app.threads[w].pc = "engine"
    /\ wk[w].pc = "done"
    /\ LET t == app.threads[w]
       IN IF wk[w].outcome # "ok"
          THEN app' = [app EXCEPT !.threads[w] =
                          [t EXCEPT !.pc = "responded", !.raised = wk[w].outcome,
                                    !.response = raise_to_caller(t.endpoint, wk[w].outcome)]]
          ELSE IF Len(wk[w].new_lvl2_ids) > 0
          THEN \E delivered \in BOOLEAN :
                  app' = [app EXCEPT
                             !.threads[w] =
                                 [t EXCEPT !.pc = "responded",
                                           !.raised = IF delivered THEN "none"
                                                      ELSE "PublishError",
                                           !.response = IF delivered THEN "ok"
                                                        ELSE "PublishError"],
                             !.bus = IF delivered
                                     THEN publish_edit(@, wk[w].operation_id,
                                                       wk[w].new_lvl2_ids)
                                     ELSE @]
          ELSE app' = [app EXCEPT !.threads[w] =
                          [t EXCEPT !.pc = "responded", !.response = "ok"]]
    /\ UNCHANGED <<storeVars, editVars, metaVars, ingest>>

HandlerNext ==
    \/ \E w \in Workers : handle_merge(w)
    \/ \E w \in Workers : handle_split(w)
    \/ \E w \in Workers : handle_undo(w)
    \/ \E w \in Workers : handle_redo(w)
    \/ \E w \in Workers : RootLock_lock(w)
    \/ \E w \in Workers : apply_edit(w)
    \/ \E w \in Workers : apply_bulk_write(w)
    \/ \E w \in Workers : RootLock_exit(w)
    \/ \E w \in Workers : expire_lease(w)
    \/ \E w \in Workers : handle_return(w)

HandlerSpec == HandlerInit /\ [][HandlerNext]_vars

(***************************************************************************)
(* The operation log seen through the HTTP layer: all_user_operations and  *)
(* handle_rollback (app/segmentation/common.py).  RollbackSpec keeps only  *)
(* the log rows of the store: edits, undos and redos of the clients leave  *)
(* their log rows, one request thread lists the operations of a user and   *)
(* another rolls a user back, one undo_operation at a time.                *)
(***************************************************************************)
MaxLog == 4
MaxCalls == 1

Users == {"u1", "u2"}

SUCCESS == "SUCCESS"
FAILED == "FAILED"

(* A log row with the columns of the upper layers: Status and the back     *)
(* pointers UndoOperationID and RedoOperationID.  status "none" is a row   *)
(* written without the Status column.                                      *)
StatusLogCell(operation_id, timestamp, user_id, status, undo_of, redo_of) ==
    LogCell(operation_id, timestamp, <<>>,
            [kind |-> "log", UserID |-> user_id,
             cols |-> {"UserID", "RootID"}
                        \cup (IF status = "none" THEN {} ELSE {"Status"})
                        \cup (IF undo_of = NoOp THEN {} ELSE {"UndoOperationID"})
                        \cup (IF redo_of = NoOp THEN {} ELSE {"RedoOperationID"}),
             Status |-> status, UndoOperationID |-> undo_of, RedoOperationID |-> redo_of])

read_log_entries(T, start_time) == {c \in T : c.col = "Log" /\ c.ts >= start_time}

(* Is the entry of a kind that marks or unmarks: no Status column, or      *)
(* Status SUCCESS.                                                         *)
should_check(entry) == "Status" \notin entry.aux.cols \/ entry.aux.Status = SUCCESS

(* Variant of the replay that takes no notice of redo entries. *)
RECURSIVE replay_undone_ignores_redo(_, _)
replay_undone_ignores_redo(entries, undone_ids) ==
    IF entries = <<>> THEN undone_ids
    ELSE LET entry == Head(entries)
         IN replay_undone_ignores_redo(
                Tail(entries),
                IF should_check(entry) /\ "UndoOperationID" \in entry.aux.cols
                THEN undone_ids \cup {entry.aux.UndoOperationID}
                ELSE undone_ids)

(* The first loop of all_user_operations over the entries in the order of  *)
(* their IDs: undone_ids after the undo entries have marked and the redo   *)
(* entries have unmarked their targets.                                    *)
RECURSIVE replay_undone(_, _)
replay_undone(entries, undone_ids) ==
    IF entries = <<>> THEN undone_ids
    ELSE LET entry == Head(entries)
             marked == IF should_check(entry) /\ "UndoOperationID" \in entry.aux.cols
                       THEN undone_ids \cup {entry.aux.UndoOperationID}
                       ELSE undone_ids
             unmarked == IF should_check(entry) /\ "RedoOperationID" \in entry.aux.cols
                         THEN marked \ {entry.aux.RedoOperationID}
                         ELSE marked
         IN replay_undone(Tail(entries), unmarked)

all_user_operations(log_rows, target_user_id, include_undone) ==
    LET entry(entry_id) == CHOOSE c \in log_rows : c.key = entry_id
        entry_ids == SortedSeq({c.key : c \in log_rows})
        is_valid(entry_id) == entry(entry_id).aux.UserID = target_user_id
        valid_entry_ids == SelectSeq(entry_ids, is_valid)
        undone_ids == replay_undone([i \in 1..Len(entry_ids) |-> entry(entry_ids[i])], {})
        is_filtered(entry_id) ==
            /\ "UndoOperationID" \notin entry(entry_id).aux.cols
            /\ "RedoOperationID" \notin entry(entry_id).aux.cols
            /\ entry_id \notin undone_ids
        ids == IF include_undone THEN valid_entry_ids
               ELSE SelectSeq(valid_entry_ids, is_filtered)
    IN [operation_id |-> ids, timestamp |-> [i \in 1..Len(ids) |-> entry(ids[i]).ts]]

(* A request thread of the log endpoints. *)
NoCall == [pc |-> "idle", seq |-> 0, endpoint |-> "none", target_user_id |-> "u1",
           include_undone |-> FALSE, log_rows |-> {}, user_operations |-> <<>>,
           operations |-> <<>>, passed |-> <<>>, raised |-> "none", response |-> "none"]

RollbackInit ==
    /\ n_layers = 3
    /\ use_skip_connections = FALSE
    /\ table = {}
    /\ counter = ZeroCounter
    /\ minted = {}
    /\ mintCount = 0
    /\ lock = <<>>
    /\ clock = 0
    /\ nextOp = 0
    /\ started = 0
    /\ expiries = 0
    /\ wk = [w \in Workers |-> IdleWorker]
    /\ attempts = {}
    /\ commits = {}
    /\ ingest = NoIngest
    /\ app = [NoApp EXCEPT !.threads = [w \in Workers |-> NoCall]]

(* The row an operation leaves in the log. *)
write_log(row) ==
    /\ nextOp < MaxLog
    /\ table' = mutate_row(table, row)
    /\ nextOp' = nextOp + 1
    /\ clock' = clock + 1

(* An edit of a client: its log row, with the status the edit ended with. *)
logged_edit(user_id, status) ==
    /\ write_log(StatusLogCell(nextOp + 1, clock + 1, user_id, status, NoOp, NoOp))
    /\ UNCHANGED <<counter, minted, mintCount, lock, started, expiries, wk, attempts,
                   commits, metaVars, ingest, appVars>>

(* The operations that are undone as the log stands. *)
Undone(T) ==
    LET log_rows == read_log_entries(T, 0)
        entry_ids == SortedSeq({c.key : c \in log_rows})
    IN replay_undone([i \in 1..Len(entry_ids) |->
                         CHOOSE c \in log_rows : c.key = entry_ids[i]], {})

(* The edits an undo or a redo may name: rows without a back pointer. *)
Originals(T) ==
    {c.key : c \in {r \in read_log_entries(T, 0) :
                       /\ "UndoOperationID" \notin r.aux.cols
                       /\ "RedoOperationID" \notin r.aux.cols}}

(* ChunkedGraph.undo_operation and redo_operation: an operation that is    *)
(* already undone is not undone again, one that is not undone is not       *)
(* redone; otherwise the inverse edit (the edit) runs and ends as any edit *)
(* does.                                                                   *)
undo_operation(T, operation_id) ==
    IF operation_id \in Undone(T) THEN {"PreconditionError"}
    ELSE {"ok", "LockingError", "PostconditionError"}

redo_operation(T, operation_id) ==
    IF operation_id \notin Undone(T) THEN {"PreconditionError"}
    ELSE {"ok", "LockingError", "PostconditionError"}

(* The Status column of the row of an operation that ended with outcome. *)
StatusCodes(outcome) == IF outcome = "ok" THEN {"none", SUCCESS} ELSE {FAILED}

(* An undo or a redo requested by a client through handle_undo or          *)
(* handle_redo: its log row.                                               *)
logged_undo(user_id, operation_id) ==
    /\ operation_id \in Originals(table)
    /\ \E outcome \in undo_operation(table, operation_id) :
          \E status \in StatusCodes(outcome) :
             write_log(StatusLogCell(nextOp + 1, clock + 1, user_id, status,
                                     operation_id, NoOp))
    /\ UNCHANGED <<counter, minted, mintCount, lock, started, expiries, wk, attempts,
                   commits, metaVars, ingest, appVars>>

logged_redo(user_id, operation_id) ==
    /\ operation_id \in Originals(table)
    /\ \E outcome \in redo_operation(table, operation_id) :
          \E status \in StatusCodes(outcome) :
             write_log(StatusLogCell(nextOp + 1, clock + 1, user_id, status,
                                     NoOp, operation_id))
    /\ UNCHANGED <<counter, minted, mintCount, lock, started, expiries, wk, attempts,
                   commits, metaVars, ingest, appVars>>

FreeCall(w) == app.threads[w].pc \in {"idle", "responded"} /\ started < MaxCalls

(* The endpoint that lists the operations of a user. *)
handle_user_operations(w) ==
    /\ FreeCall(w)
    /\ \E target_user_id \in Users, include_undone \in BOOLEAN :
          LET log_rows == read_log_entries(table, 0)
          IN app' = [app EXCEPT !.threads[w] =
                        [NoCall EXCEPT
                            !.pc = "responded", !.seq = started + 1,
                            !.endpoint = "user_operations",
                            !.target_user_id = target_user_id,
                            !.include_undone = include_undone,
                            !.log_rows = log_rows,
                            !.user_operations =
                                all_user_operations(log_rows, target_user_id,
                                                    include_undone).operation_id,
                            !.response = "ok"]]
    /\ started' = started + 1
    /\ UNCHANGED <<storeVars, lock, clock, nextOp, expiries, wk, attempts, commits,
                   metaVars, ingest>>

(* operations.sort(key=lambda op: op[1], reverse=True) *)
RECURSIVE sort_reverse(_)
sort_reverse(operations) ==
    IF operations = {} THEN <<>>
    ELSE LET last == CHOOSE op \in operations : \A o \in operations : o[2] <= op[2]
         IN <<last>> \o sort_reverse(operations \ {last})

(* handle_rollback up to the loop: the operations of the user that are not *)
(* undone, newest first.                                                   *)
handle_rollback(w) ==
    /\ FreeCall(w)
    /\ \E target_user_id \in Users :
          LET log_rows == read_log_entries(table, 0)
              user_operations == all_user_operations(log_rows, target_user_id, FALSE)
              operation_ids == user_operations.operation_id
              timestamps == user_operations.timestamp
              operations == {<<operation_ids[i], timestamps[i]>> :
                                i \in 1..Len(operation_ids)}
          IN app' = [app EXCEPT !.threads[w] =
                        [NoCall EXCEPT
                            !.pc = "rollback", !.seq = started + 1,
                            !.endpoint = "rollback",
                            !.target_user_id = target_user_id,
                            !.log_rows = log_rows,
                            !.user_operations = operation_ids,
                            !.operations = sort_reverse(operations)]]
    /\ started' = started + 1
    /\ UNCHANGED <<storeVars, lock, clock, nextOp, expiries, wk, attempts, commits,
                   metaVars, ingest>>

(* One turn of the loop of handle_rollback: undo_operation of the next     *)
(* operation, the except clauses, and publish_edit when the undo has new   *)
(* L2 IDs.  The call of publish_edit names is_priority, which is not bound *)
(* in handle_rollback: its evaluation raises NameError.                    *)
rollback_undo(w) ==
    LET t == app.threads[w]
        operation_id == Head(t.operations)[1]
    IN /\ t.pc = "rollback"
       /\ t.operations # <<>>
       /\ \E outcome \in undo_operation(table, operation_id) :
             \E status \in StatusCodes(outcome), new_lvl2_ids \in BOOLEAN :
                /\ write_log(StatusLogCell(nextOp + 1, clock + 1, t.target_user_id,
                                           status, operation_id, NoOp))
                /\ app' = [app EXCEPT !.threads[w] =
                              IF outcome # "ok"
                              THEN [t EXCEPT !.pc = "responded",
                                             !.passed = Append(@, operation_id),
                                             !.raised = outcome,
                                             !.response = raise_to_caller("rollback",
                                                                          outcome)]
                              ELSE IF new_lvl2_ids
                              THEN [t EXCEPT !.pc = "responded",
                                             !.passed = Append(@, operation_id),
                                             !.raised = "NameError",
                                             !.response = "NameError"]
                              ELSE [t EXCEPT !.operations = Tail(@),
                                             !.passed = Append(@, operation_id)]]
       /\ UNCHANGED <<counter, minted, mintCount, lock, started, expiries, wk, attempts,
                      commits, metaVars, ingest>>

(* The loop has run through: handle_rollback returns user_operations. *)
rollback_return(w) ==
    /\ app.threads[w].pc = "rollback"
    /\ app.threads[w].operations = <<>>
    /\ app' = [app EXCEPT !.threads[w].pc = "responded", !.threads[w].response = "ok"]
    /\ UNCHANGED <<storeVars, editVars, metaVars, ingest>>

RollbackNext ==
    \/ \E user_id \in Users, status \in {SUCCESS, FAILED} : logged_edit(user_id, status)
    \/ \E operation_id \in 1..MaxLog : logged_undo("u2", operation_id)
    \/ \E operation_id \in 1..MaxLog : logged_redo("u2", operation_id)
    \/ \E w \in Workers : handle_user_operations(w)
    \/ \E w \in Workers : handle_rollback(w)
    \/ \E w \in Workers : rollback_undo(w)
    \/ \E w \in Workers : rollback_return(w)

RollbackSpec == RollbackInit /\ [][RollbackNext]_vars

(***************************************************************************)
(* The handle cache of the HTTP layer (app/app_utils.py, get_cg).  In      *)
(* CacheSpec the request threads of one server process call get_cg; app    *)
(* holds the module-level dict CACHE, the handlers attached to the logger  *)
(* of each table, the handles constructed so far and the handles returned. *)
(* A thread may be switched out between any two statements of get_cg.      *)
(***************************************************************************)
MaxGets == 3

TableIds == {"minnie65", "pinky_100"}

NoHandle == 0

NoGet == [pc |-> "idle", table_id |-> "minnie65", handle |-> NoHandle]

CacheInit ==
    /\ n_layers = 3
    /\ use_skip_connections = FALSE
    /\ table = {}
    /\ counter = ZeroCounter
    /\ minted = {}
    /\ mintCount = 0
    /\ lock = <<>>
    /\ clock = 0
    /\ nextOp = 0
    /\ started = 0
    /\ expiries = 0
    /\ wk = [w \in Workers |-> IdleWorker]
    /\ attempts = {}
    /\ commits = {}
    /\ ingest = NoIngest
    /\ app = [CACHE |-> [key \in TableIds \cup {"log_db"} |-> NoHandle],
              handlers |-> [table_id \in TableIds |-> 0],
              constructed |-> <<>>,
              returned |-> {},
              log_dbs |-> <<>>,
              log_returned |-> {},
              threads |-> [w \in Workers |-> NoGet]]

(* get_cg up to the except clause: return CACHE[table_id], or KeyError. *)
get_cg(w) ==
    /\ app.threads[w].pc = "idle"
    /\ started < MaxGets
    /\ \E table_id \in TableIds :
          IF app.CACHE[table_id] # NoHandle
          THEN app' = [app EXCEPT
                          !.returned = @ \cup {<<table_id, app.CACHE[table_id]>>},
                          !.threads[w] = [NoGet EXCEPT !.table_id = table_id,
                                                       !.handle = app.CACHE[table_id]]]
          ELSE app' = [app EXCEPT
                          !.threads[w] = [NoGet EXCEPT !.pc = "logger",
                                                       !.table_id = table_id]]
    /\ started' = started + 1
    /\ UNCHANGED <<storeVars, lock, clock, nextOp, expiries, wk, attempts, commits,
                   metaVars, ingest>>

(* logger.addHandler(handler) on the logger of the table. *)
logger_addHandler(w) ==
    /\ app.threads[w].pc = "logger"
    /\ app' = [app EXCEPT !.handlers[app.threads[w].table_id] = @ + 1,
                          !.threads[w].pc = "construct"]
    /\ UNCHANGED <<storeVars, editVars, metaVars, ingest>>

(* ChunkedGraph(graph_id=table_id, ...): a new handle. *)
ChunkedGraph_init(w) ==
    /\ app.threads[w].pc = "construct"
    /\ app' = [app EXCEPT !.constructed = Append(@, app.threads[w].table_id),
                          !.threads[w].handle = Len(app.constructed) + 1,
                          !.threads[w].pc = "insert"]
    /\ UNCHANGED <<storeVars, editVars, metaVars, ingest>>

(* CACHE[table_id] = <the new handle> *)
CACHE_setitem(w) ==
    /\ app.threads[w].pc = "insert"
    /\ app' = [app EXCEPT !.CACHE[app.threads[w].table_id] = app.threads[w].handle,
                          !.threads[w].pc = "return"]
    /\ UNCHANGED <<storeVars, editVars, metaVars, ingest>>

(* return CACHE[table_id] *)
get_cg_return(w) ==
    /\ app.threads[w].pc = "return"
    /\ LET table_id == app.threads[w].table_id
       IN app' = [app EXCEPT
                     !.returned = @ \cup {<<table_id, app.CACHE[table_id]>>},
                     !.threads[w] = [NoGet EXCEPT !.table_id = table_id,
                                                  !.handle = app.CACHE[table_id]]]
    /\ UNCHANGED <<storeVars, editVars, metaVars, ingest>>

(* get_log_db up to the construction: the test "log_db" not in CACHE, and  *)
(* the return of CACHE["log_db"] when the key is there.                    *)
get_log_db(w) ==
    /\ app.threads[w].pc = "idle"
    /\ started < MaxGets
    /\ \E table_id \in TableIds :
          IF app.CACHE["log_db"] # NoHandle
          THEN app' = [app EXCEPT
                          !.log_returned = @ \cup {<<table_id, app.CACHE["log_db"]>>},
                          !.threads[w] = [NoGet EXCEPT !.table_id = table_id,
                                                       !.handle = app.CACHE["log_db"]]]
          ELSE app' = [app EXCEPT
                          !.threads[w] = [NoGet EXCEPT !.pc = "log_db",
                                                       !.table_id = table_id]]
    /\ started' = started + 1
    /\ UNCHANGED <<storeVars, lock, clock, nextOp, expiries, wk, attempts, commits,
                   metaVars, ingest>>

(* CACHE["log_db"] = FlaskLogDatabase(table_id, ...); return CACHE["log_db"] *)
FlaskLogDatabase_init(w) ==
    /\ app.threads[w].pc = "log_db"
    /\ LET table_id == app.threads[w].table_id
           handle == Len(app.log_dbs) + 1
       IN app' = [app EXCEPT
                     !.log_dbs = Append(@, table_id),
                     !.CACHE["log_db"] = handle,
                     !.log_returned = @ \cup {<<table_id, handle>>},
                     !.threads[w] = [NoGet EXCEPT !.table_id = table_id, !.handle = handle]]
    /\ UNCHANGED <<storeVars, editVars, metaVars, ingest>>

CacheNext ==
    \/ \E w \in Workers : get_cg(w)
    \/ \E w \in Workers : get_log_db(w)
    \/ \E w \in Workers : FlaskLogDatabase_init(w)
    \/ \E w \in Workers : logger_addHandler(w)
    \/ \E w \in Workers : ChunkedGraph_init(w)
    \/ \E w \in Workers : CACHE_setitem(w)
    \/ \E w \in Workers : get_cg_return(w)

CacheSpec == CacheInit /\ [][CacheNext]_vars

(***************************************************************************)
(* Replay from the log (GraphEditOperation.from_log_record).  In           *)
(* DecodeSpec an operation writes its log record with create_log_record,   *)
(* or a record with some set of columns is read from the log, and          *)
(* from_log_record decodes the record.                                     *)
(***************************************************************************)
Columns == {"UserID", "SourceID", "SinkID", "SourceCoordinate", "SinkCoordinate",
            "AddedEdge", "RemovedEdge", "Affinity", "BoundingBoxOffset"}

Coordinates == {None, <<0, 0, 0>>}
Affinities == {None, <<1>>}

(* The operations that are logged: merges and splits with and without      *)
(* coordinates and affinities, and multicuts after apply has run the       *)
(* min-cut (edges holds the removed edges), with and without a bounding    *)
(* box.                                                                    *)
Operations ==
    {[MkEdit(k, u, 1, 2, FALSE) EXCEPT !.source_coords = sc, !.sink_coords = tc,
                                       !.affinities = af] :
        k \in {"merge", "split"}, u \in Users, sc \in Coordinates, tc \in Coordinates,
        af \in Affinities}
    \cup
    {[MkEdit("multicut", u, 1, 2, FALSE) EXCEPT !.edges = {EdgeKey(1, 2)}, !.box = box,
                                                !.source_coords = <<0, 0, 0>>,
                                                !.sink_coords = <<1, 0, 0>>] :
        u \in Users, box \in {{}, {1, 2}}}

(* A record of the log with the columns cols. *)
LogRecord(cols) ==
    val_dict("u1", cols, {EdgeKey(1, 2)}, {1}, {2}, <<0, 0, 0>>, <<1, 0, 0>>, <<1>>, {1, 2})

NoResult == [raised |-> "none", operation |-> NoEdit]

DecodeInit ==
    /\ n_layers = 3
    /\ use_skip_connections = FALSE
    /\ table = {}
    /\ counter = ZeroCounter
    /\ minted = {}
    /\ mintCount = 0
    /\ lock = <<>>
    /\ clock = 0
    /\ nextOp = 0
    /\ started = 0
    /\ expiries = 0
    /\ wk = [w \in Workers |-> IdleWorker]
    /\ attempts = {}
    /\ commits = {}
    /\ ingest = NoIngest
    /\ app = [pc |-> "start", operation |-> NoEdit, log_record |-> LogRecord({}),
              multicut_as_split |-> TRUE, result |-> NoResult]

(* The operation constructors as from_log_record calls them. *)
MergeOperation(user_id, source_coords, sink_coords, added_edges, affinities) ==
    [kind |-> "merge", user_id |-> user_id,
     source_ids |-> {k \div 10 : k \in added_edges},
     sink_ids |-> {k % 10 : k \in added_edges},
     edges |-> added_edges, box |-> {},
     source_coords |-> source_coords, sink_coords |-> sink_coords,
     affinities |-> affinities]

SplitOperation(user_id, source_coords, sink_coords, removed_edges) ==
    [kind |-> "split", user_id |-> user_id,
     source_ids |-> {k \div 10 : k \in removed_edges},
     sink_ids |-> {k % 10 : k \in removed_edges},
     edges |-> removed_edges, box |-> {},
     source_coords |-> source_coords, sink_coords |-> sink_coords,
     affinities |-> None]

(* removed_edges of a new MulticutOperation is None: apply runs the       *)
(* min-cut.                                                                *)
MulticutOperation(user_id, source_coords, sink_coords, bbox_offset, source_ids, sink_ids) ==
    [kind |-> "multicut", user_id |-> user_id,
     source_ids |-> source_ids, sink_ids |-> sink_ids,
     edges |-> {}, box |-> bbox_offset,
     source_coords |-> source_coords, sink_coords |-> sink_coords,
     affinities |-> None]

Raised(error) == [raised |-> error, operation |-> NoEdit]

Constructed(operation) ==
    IF ConstructorOk(operation) THEN [raised |-> "none", operation |-> operation]
    ELSE Raised("PreconditionError")

(* log_record[column]: the columns that from_log_record reads before it    *)
(* looks for AddedEdge and RemovedEdge.                                    *)
ReadFirst == {"UserID", "SourceID", "SinkID", "SourceCoordinate", "SinkCoordinate"}

from_log_record(log_record, multicut_as_split) ==
    IF ~(ReadFirst \subseteq log_record.cols) THEN Raised("KeyError")
    ELSE IF "AddedEdge" \in log_record.cols
    THEN IF "Affinity" \notin log_record.cols THEN Raised("KeyError")
         ELSE Constructed(MergeOperation(log_record.UserID, log_record.source_coords,
                                         log_record.sink_coords, log_record.edges,
                                         log_record.affinities))
    ELSE IF "RemovedEdge" \in log_record.cols
    THEN IF multicut_as_split \/ "BoundingBoxOffset" \notin log_record.cols
         THEN Constructed(SplitOperation(log_record.UserID, log_record.source_coords,
                                         log_record.sink_coords, log_record.edges))
         ELSE Constructed(MulticutOperation(log_record.UserID, log_record.source_coords,
                                            log_record.sink_coords, log_record.bbox_offset,
                                            log_record.source_ids, log_record.sink_ids))
    ELSE Raised("PreconditionError")

(* An operation writes its log record. *)
write_log_record ==
    /\ app.pc = "start"
    /\ \E operation \in Operations :
          app' = [app EXCEPT !.pc = "logged", !.operation = operation,
                             !.log_record = create_log_record(operation, 1, 1, <<>>).aux]
    /\ UNCHANGED <<storeVars, editVars, metaVars, ingest>>

(* A record with some columns is read from the log. *)
read_log_row ==
    /\ app.pc = "start"
    /\ \E cols \in SUBSET Columns :
          app' = [app EXCEPT !.pc = "read", !.log_record = LogRecord(cols)]
    /\ UNCHANGED <<storeVars, editVars, metaVars, ingest>>

replay_from_log ==
    /\ app.pc \in {"logged", "read"}
    /\ \E multicut_as_split \in BOOLEAN :
          app' = [app EXCEPT !.pc = "decoded", !.multicut_as_split = multicut_as_split,
                             !.result = from_log_record(app.log_record, multicut_as_split)]
    /\ UNCHANGED <<storeVars, editVars, metaVars, ingest>>

DecodeNext ==
    \/ write_log_record
    \/ read_log_row
    \/ replay_from_log

DecodeSpec == DecodeInit /\ [][DecodeNext]_vars

(***************************************************************************)
(* Claims.                                                                 *)
(***************************************************************************)
AllPresent(rows) == \A i \in 1..Len(rows) : rows[i] \in table
NonePresent(rows) == \A i \in 1..Len(rows) : rows[i] \notin table

(* C1: the bulk write that ends apply applies all of the mutations of the  *)
(* edit (log row and hierarchy rows) when the edit still holds every lock  *)
(* of its root set, and none of them when one of these locks is no longer  *)
(* held; rows that were computed but not yet written are not visible.      *)
C1_AtomicConditionalWrite ==
    /\ \A a \in attempts : IF a.held THEN AllPresent(a.rows) ELSE NonePresent(a.rows)
    /\ \A w \in Workers : wk[w].pc = "write" => NonePresent(wk[w].rows)

C1_Witness ==
    \E a, b \in attempts :
        /\ ~a.held /\ b.held
        /\ \E i \in 1..Len(a.rows), j \in 1..Len(b.rows) :
              a.rows[i].col = "Parent" /\ b.rows[j].col = "Parent" /\ a.rows[i].key = b.rows[j].key

(* C2: a lock that is held and unexpired stays with its holder: no step    *)
(* hands it to a different operation ID, and it is removed only by a step  *)
(* of the operation that holds it; so at most one operation ID holds an    *)
(* unexpired lock on a root.                                               *)
OwnerSteps(operation_id) ==
    \E w \in Workers : wk[w].operation_id = operation_id /\ wk'[w] # wk[w]

C2_ExclusiveLock ==
    [][\A r \in DOMAIN lock :
          ~lock[r].expired =>
             IF r \in DOMAIN lock'
             THEN lock'[r].owner = lock[r].owner
             ELSE OwnerSteps(lock[r].owner)]_vars

C2_Witness ==
    \E w \in Workers, r \in DOMAIN lock :
        /\ wk[w].pc = "lock" /\ wk[w].tries > 0
        /\ r \in Range(wk[w].root_ids)
        /\ ~lock[r].expired /\ lock[r].owner # wk[w].operation_id

(* C3: an edit takes its root locks in ascending root-ID order, holds all  *)
(* of them once it is past the acquisition, holds none after a failed      *)
(* attempt, and every edit that started to acquire locks eventually holds  *)
(* all of them or has failed with LockingError.                            *)
HoldsNone(w) == \A r \in DOMAIN lock : lock[r].owner # wk[w].operation_id

AscendingAcquisition(w) ==
    \A i \in 1..Len(wk[w].locked) :
        /\ wk[w].locked[i][1] = SortedSeq(Range(wk[w].root_ids))[i]
        /\ i > 1 => wk[w].locked[i - 1][1] < wk[w].locked[i][1]

LockDiscipline ==
    \A w \in Workers :
        /\ AscendingAcquisition(w)
        /\ wk[w].pc = "locked" =>
              \A r \in Range(wk[w].root_ids) : Held(lock, r, wk[w].operation_id)
        /\ (wk[w].pc = "lock" /\ wk[w].locked = <<>>) => HoldsNone(w)
        /\ (wk[w].pc = "done" /\ wk[w].outcome = "LockingError") => HoldsNone(w)

C3_NoDeadlock ==
    /\ []LockDiscipline
    /\ \A w \in Workers :
          (wk[w].pc = "lock") ~>
             (wk[w].pc = "locked" \/ (wk[w].pc = "done" /\ wk[w].outcome = "LockingError"))

C3_Witness ==
    \E w, v \in Workers :
        /\ wk[w].pc = "done" /\ wk[w].outcome = "LockingError" /\ wk[w].timestamp = 0
        /\ Len(wk[w].root_ids) = 2
        /\ wk[v].pc = "locked" /\ Len(wk[v].root_ids) = 2
        /\ Range(wk[w].root_ids) \cap Range(wk[v].root_ids) # {}

(* C4: once apply has returned or raised, no root is locked under the      *)
(* operation ID of that edit: every lock belongs to an edit that is still  *)
(* between entering and leaving its RootLock.                              *)
C4_LocksReleasedOnExit ==
    /\ \A w \in Workers : wk[w].pc \in {"idle", "done"} => HoldsNone(w)
    /\ \A r \in DOMAIN lock :
          \E w \in Workers : /\ wk[w].operation_id = lock[r].owner
                             /\ wk[w].pc \in {"lock", "locked", "write", "exit"}

C4_Witness ==
    \E w, v \in Workers :
        /\ wk[w].pc = "done" /\ wk[w].outcome = "InternalError" /\ Len(wk[w].locked) > 0
        /\ wk[v].pc = "done" /\ wk[v].outcome = "LockingError" /\ wk[v].timestamp > 0

(* C5: every row of a committed edit, the log row and the hierarchy rows,  *)
(* carries one timestamp, and it is a timestamp of the locks the edit      *)
(* acquired.                                                               *)
C5_SingleTimestamp ==
    /\ \A c \in commits :
          /\ c.timestamp \in c.lock_times
          /\ \A i \in 1..Len(c.rows) : c.rows[i].ts = c.timestamp
    /\ \A w \in Workers :
          wk[w].pc = "write" => \A i \in 1..Len(wk[w].rows) : wk[w].rows[i].ts = wk[w].timestamp

C5_Witness ==
    \E c \in commits :
        /\ Cardinality(c.lock_times) = 2
        /\ c.timestamp < clock
        /\ \E i, j \in 1..Len(c.rows) : c.rows[i].col = "Log" /\ c.rows[j].col = "Child"

(* C6: every root written by a committed edit is listed in a log row that  *)
(* is keyed by the operation ID of the edit and was written by the same    *)
(* bulk write; operation IDs are not shared between edits.                  *)
EditRoots ==
    {cell \in table : cell.col = "Child" /\ cell.ts > 0 /\ get_chunk_layer(cell.key) = n_layers}

C6_RootsAreLogged ==
    /\ \A cell \in EditRoots :
          \E c \in commits :
             /\ cell \in Range(c.rows)
             /\ \E i \in 1..Len(c.rows) :
                   /\ c.rows[i].col = "Log" /\ c.rows[i].key = c.operation_id
                   /\ c.rows[i].ts = cell.ts /\ cell.key \in c.rows[i].val
                   /\ c.rows[i] \in table
    /\ \A c, d \in commits : c.operation_id = d.operation_id => c = d
    /\ \A w, v \in Workers :
          (w # v /\ wk[w].operation_id # NoOp) => wk[w].operation_id # wk[v].operation_id

C6_Witness ==
    \E c, d \in commits :
        /\ c.kind = "merge" /\ Cardinality(c.new_root_ids) = 1
        /\ d.kind \in {"split", "multicut"} /\ Cardinality(d.new_root_ids) = 2
        /\ \A r \in c.new_root_ids \cup d.new_root_ids :
              \E cell \in EditRoots : cell.key = r

(* C7 (as stated): once add_layer has completed, at every timestamp every  *)
(* node below the completed layer has a parent, and a node c has parent p  *)
(* if and only if c is among the children of p.                            *)
NodesOf(T) ==
    {c.key : c \in {d \in T : d.col \in {"Parent", "Child"}}}
        \cup UNION {c.val : c \in {d \in T : d.col \in {"Parent", "Child"}}}

ParentChildConsistent(T, t) ==
    \A c, p \in NodesOf(T) : (get_parent(T, c, t) = p) <=> (c \in get_children(T, p, t))

C7_ParentChildConsistent ==
    (ingest.pc = "off" /\ ingest.next_layer > 3) =>
        \A t \in 0..clock :
            /\ ParentChildConsistent(table, t)
            /\ \A c \in NodesOf(table) :
                  get_chunk_layer(c) < ingest.next_layer - 1 => get_parent(table, c, t) # NoNode

(* C8: no node ID is handed out twice: the parents that the tasks of       *)
(* _write_components assign to their components are pairwise different,    *)
(* also across tasks that reserve IDs in the same parent chunk, and every  *)
(* reservation, of an ingest task or of an edit, returns unused IDs.       *)
AssignedParents ==
    UNION {{<<i, j>> : j \in 1..Len(ingest.tasks[i].parent_ids)} : i \in 1..Len(ingest.tasks)}

C8_NodeIdsMintedOnce ==
    /\ Cardinality(minted) = mintCount
    /\ \A x, y \in AssignedParents :
          x # y => ingest.tasks[x[1]].parent_ids[x[2]] # ingest.tasks[y[1]].parent_ids[y[2]]
    /\ \A x \in AssignedParents : ingest.tasks[x[1]].parent_ids[x[2]] \in minted

C8_Witness ==
    /\ started > 0
    /\ \E i, j \in 1..Len(ingest.tasks) :
          /\ i # j
          /\ ingest.tasks[i].pc = "write" /\ ingest.tasks[j].pc = "write"
          /\ Len(ingest.tasks[i].parent_ids) > 1
          /\ get_chunk_id(ingest.tasks[i].parent_ids[1]) = get_chunk_id(ingest.tasks[j].parent_ids[1])

(* C9 (as stated): when an edit commits with lock timestamp tau, every     *)
(* supervoxel beneath one of its new roots has one of the new roots as its *)
(* root at tau, and just before tau its root is the root it had before the *)
(* edit.                                                                   *)
Commits(w) == wk[w].pc = "write" /\ wk'[w].pc = "exit" /\ wk'[w].outcome = "ok"

Beneath(T, roots, t) ==
    {s \in SV : \E r \in roots : \E m \in get_children(T, r, t) : s \in get_children(T, m, t)}

C9_RootAtLockTimestamp ==
    [][\A w \in Workers :
          Commits(w) =>
             \A s \in Beneath(table', Range(wk[w].new_root_ids), wk[w].timestamp) :
                /\ get_root(table', s, wk[w].timestamp) \in Range(wk[w].new_root_ids)
                /\ get_root(table', s, wk[w].timestamp - 1) = get_root(table, s, clock)]_vars

(* C10 (as stated): a committed merge of two supervoxels that lie under    *)
(* two different roots returns exactly one new root, different from both,  *)
(* and it is the root of both supervoxels afterwards.                      *)
C10_MergeYieldsOneRoot ==
    [][\A w \in Workers :
          LET a == Min(wk[w].edit.source_ids)
              b == Min(wk[w].edit.sink_ids)
          IN (Commits(w) /\ wk[w].edit.kind = "merge"
                /\ get_root(table, a, clock) # get_root(table, b, clock)) =>
                /\ Len(wk[w].new_root_ids) = 1
                /\ wk[w].new_root_ids[1] \notin {get_root(table, a, clock), get_root(table, b, clock)}
                /\ get_root(table', a, clock') = wk[w].new_root_ids[1]
                /\ get_root(table', b, clock') = wk[w].new_root_ids[1]]_vars

(* C11: a split that reaches its write returns one or two new roots: two   *)
(* when the atomic edges left after the removal no longer connect its two  *)
(* endpoints, one when they still do (the removal was redundant).          *)
SplitComputed(w) ==
    wk[w].pc = "locked" /\ wk'[w].pc = "write" /\ wk'[w].edit.kind = "split"

StillConnected(T, e, t) ==
    Min(e.sink_ids) \in Grow({Min(e.source_ids)}, EdgesAt(T, t) \ e.edges, SV)

C11_WitnessTwo ==
    \E c \in commits : c.kind = "split" /\ Cardinality(c.new_root_ids) = 2

(* C12 (as stated): two edits on disjoint roots both succeed when they run *)
(* concurrently, and running them one after the other in either order      *)
(* leaves the same rows once operation IDs and timestamps are erased, the  *)
(* IDs of the newly minted parents included.                               *)
BothDone == \A w \in {1, 2} : wk[w].pc = "done" /\ wk[w].edit.kind # "none"

FirstState ==
    LET E0 == EdgesAt(table, 0)
    IN [table |-> {c \in table : c.ts = 0}, counter |-> InitGraph(E0).counter]

InOrder(w1, w2) ==
    execute(execute(FirstState, wk[w1].edit, 1, 1), wk[w2].edit, 2, 2).table

EraseStamps(T) ==
    {[col |-> c.col, key |-> IF c.col = "Log" THEN NoOp ELSE c.key,
      val |-> c.val, aux |-> c.aux] : c \in T}

RECURSIVE Leaves(_, _)
Leaves(T, n) ==
    IF get_chunk_layer(n) = 1 THEN {n}
    ELSE UNION {Leaves(T, m) : m \in UNION {c.val : c \in {d \in T : d.col = "Child" /\ d.key = n}}}

Shape(T, n) == <<get_chunk_layer(n), Leaves(T, n)>>

EraseIds(T) ==
    {[col |-> c.col,
      key |-> IF c.col = "Log" THEN <<NoOp>>
              ELSE IF c.col = "Edge" THEN <<c.key>> ELSE Shape(T, c.key),
      val |-> IF c.col = "Edge" THEN c.val ELSE {Shape(T, v) : v \in c.val},
      aux |-> c.aux] : c \in T}

Submits(w) == wk[w].pc \in {"idle", "done"} /\ wk'[w] # wk[w]

EndpointRoots(e) == get_roots(table, e.source_ids \cup e.sink_ids, clock)

C13_SeveralRootsFailBeforeLock ==
    [][\A w \in Workers :
          /\ (Submits(w) /\ wk'[w].edit.kind \in {"split", "multicut"}
                 /\ Cardinality(EndpointRoots(wk'[w].edit)) > 1) =>
                /\ wk'[w].outcome = "PreconditionError"
                /\ wk'[w].pc = "done"
                /\ wk'[w].locked = <<>> /\ wk'[w].rows = <<>>
                /\ wk'[w].operation_id = NoOp
                /\ UNCHANGED <<table, lock, counter, minted, nextOp, attempts>>
          /\ (wk'[w] # wk[w] /\ wk'[w].outcome = "PreconditionError") => Submits(w)]_vars

C13_Witness ==
    \E w \in Workers :
       /\ wk[w].outcome = "PreconditionError"
       /\ wk[w].edit.kind = "multicut"
       /\ commits # {}

(* C14: a multicut whose min-cut is empty fails with PostconditionError    *)
(* (unless a store read fails first); the failing step and everything the  *)
(* edit does afterwards write no log row and no hierarchy row and mint no  *)
(* node ID, and once the edit is done none of its locks is left.           *)
EmptyCut(w) ==
    /\ wk[w].pc = "locked" /\ wk[w].edit.kind = "multicut" /\ wk'[w] # wk[w]
    /\ {} \in run_multicut(table, clock, Min(wk[w].edit.source_ids),
                            Min(wk[w].edit.sink_ids), wk[w].edit.box)

NoTrace(w) ==
    /\ wk[w].rows = <<>>
    /\ ~\E c \in table : c.col = "Log" /\ c.key = wk[w].operation_id
    /\ ~\E a \in attempts : a.operation_id = wk[w].operation_id
    /\ wk[w].pc = "done" =>
          ~\E root \in DOMAIN lock : lock[root].owner = wk[w].operation_id

Disconnected(e) ==
    Min(e.sink_ids) \notin Grow({Min(e.source_ids)}, EdgesAt(table, clock), SV)

SubmitsDisconnectedCut(w) ==
    Submits(w) /\ wk'[w].edit.kind = "multicut" /\ Disconnected(wk'[w].edit)

C15_DisconnectedCutPostcondition ==
    [][\A w \in Workers :
          SubmitsDisconnectedCut(w) =>
             (wk'[w].pc = "done" => wk'[w].outcome = "PostconditionError")]_vars

(* C15 (amended): such a multicut fails with PreconditionError in the step *)
(* that resolves its roots, before any lock, and no log row is written.    *)
C15_DisconnectedCutPrecondition ==
    [][\A w \in Workers :
          SubmitsDisconnectedCut(w) =>
             /\ wk'[w].pc = "done"
             /\ wk'[w].outcome = "PreconditionError"
             /\ wk'[w].operation_id = NoOp /\ wk'[w].locked = <<>>
             /\ UNCHANGED <<table, lock, attempts>>]_vars

C15_Witness ==
    \E w \in Workers :
       /\ wk[w].pc = "done" /\ wk[w].outcome = "PreconditionError"
       /\ wk[w].edit.kind = "multicut" /\ Disconnected(wk[w].edit)
       /\ \E c \in commits : c.kind \in {"split", "multicut"}

(* C16: a merge request whose two supervoxels lie in chunks more than      *)
(* three apart on some axis is answered with BadRequest in the step that   *)
(* receives it: the engine is not entered, no lock is taken, no operation  *)
(* ID is drawn and no row is written.  A request at most three chunks      *)
(* apart on every axis passes the check and goes on to add_edges.          *)
Receives(w, endpoint) ==
    /\ started' = started + 1
    /\ app'.threads[w].seq = started + 1
    /\ app'.threads[w].endpoint = endpoint

ChunkDistance(nodes) ==
    Max({Abs(get_chunk_coordinates(nodes[1])[i] - get_chunk_coordinates(nodes[2])[i]) :
            i \in 1..3})

C16_WitnessThree ==
    \E w \in Workers :
       /\ app.threads[w].endpoint = "merge" /\ app.threads[w].response = "ok"
       /\ ChunkDistance(app.threads[w].request.nodes) = 3

(* C17: a merge request without allow_same_segment_merge whose two         *)
(* supervoxels have the same root is turned down in the step that receives *)
(* it: no node ID is minted, no operation ID is drawn, no lock is taken    *)
(* and no log or hierarchy row is written.                                 *)
SharesRoot(nodes) == Cardinality(get_roots(table, Range(nodes), clock)) = 1

C17_WitnessAllowed ==
    \E w \in Workers :
       /\ app.threads[w].endpoint = "merge" /\ app.threads[w].response = "ok"
       /\ app.threads[w].request.nodes = <<2, 3>>
       /\ started = 1

(* C18 (as stated): an edit with an endpoint that is not a supervoxel is   *)
(* rejected by the engine with the kind BadRequest.                        *)
NotSupervoxels(e) ==
    \E n \in e.source_ids \cup e.sink_ids : get_chunk_layer(n) # 1

C19_LockingSurfacesAsLocking ==
    \A w \in Workers :
       (app.threads[w].pc = "responded" /\ app.threads[w].raised = "LockingError") =>
          app.threads[w].response = "LockingError"

(* C20 (as stated): a BadRequest, PreconditionError or PostconditionError  *)
(* raised while a merge, split, undo or redo request is handled reaches    *)
(* the caller with the kind that was raised.                               *)
C20_ErrorsReportedVerbatim ==
    \A w \in Workers :
       (app.threads[w].pc = "responded"
          /\ app.threads[w].raised \in {"BadRequest", "PreconditionError",
                                        "PostconditionError"}) =>
          app.threads[w].response = app.threads[w].raised

(***************************************************************************)
(* C21: all_user_operations with include_undone false returns exactly the  *)
(* log entries of the target user that are neither undo nor redo entries   *)
(* and are not undone, where an operation is undone when the last          *)
(* successful undo or redo entry that names it, of whichever user, is an   *)
(* undo entry.                                                             *)
(***************************************************************************)
Successful(c) == "Status" \notin c.aux.cols \/ c.aux.Status = SUCCESS

UndoEntries(log_rows, operation_id) ==
    {c \in log_rows : /\ Successful(c) /\ "UndoOperationID" \in c.aux.cols
                      /\ c.aux.UndoOperationID = operation_id}

RedoEntries(log_rows, operation_id) ==
    {c \in log_rows : /\ Successful(c) /\ "RedoOperationID" \in c.aux.cols
                      /\ c.aux.RedoOperationID = operation_id}

EffectivelyUndone(log_rows, operation_id) ==
    \E u \in UndoEntries(log_rows, operation_id) :
       \A r \in RedoEntries(log_rows, operation_id) : r.key < u.key

Lists(w) ==
    /\ app.threads[w].pc = "responded"
    /\ app.threads[w].endpoint = "user_operations"
    /\ ~app.threads[w].include_undone

C21_UserOperationsAreEffective ==
    \A w \in Workers :
       Lists(w) =>
          LET t == app.threads[w]
          IN /\ Range(t.user_operations) =
                   {c.key : c \in {r \in t.log_rows :
                                     /\ r.aux.UserID = t.target_user_id
                                     /\ "UndoOperationID" \notin r.aux.cols
                                     /\ "RedoOperationID" \notin r.aux.cols
                                     /\ ~EffectivelyUndone(t.log_rows, r.key)}}
             /\ Len(t.user_operations) = Cardinality(Range(t.user_operations))

(* An operation of u1 that u2 has undone and then redone is listed. *)
C21_Witness ==
    \E w \in Workers :
       /\ Lists(w)
       /\ app.threads[w].target_user_id = "u1"
       /\ \E operation_id \in Range(app.threads[w].user_operations) :
             /\ UndoEntries(app.threads[w].log_rows, operation_id) # {}
             /\ RedoEntries(app.threads[w].log_rows, operation_id) # {}

(* An operation that was undone, redone and undone again is not listed. *)
C21_WitnessUndoneAgain ==
    \E w \in Workers :
       /\ Lists(w)
       /\ \E c \in app.threads[w].log_rows :
             /\ c.aux.UserID = app.threads[w].target_user_id
             /\ c.key \notin Range(app.threads[w].user_operations)
             /\ Cardinality(UndoEntries(app.threads[w].log_rows, c.key)) = 2
             /\ RedoEntries(app.threads[w].log_rows, c.key) # {}

(***************************************************************************)
(* C22: a rollback in which no undo raises a locking, precondition or      *)
(* postcondition error returns with every operation of its list passed to  *)
(* undo_operation once, newest first, and undone.                          *)
(***************************************************************************)
RolledBack(w) ==
    /\ app.threads[w].pc = "responded"
    /\ app.threads[w].endpoint = "rollback"

Descending(ids) == \A i, j \in 1..Len(ids) : i < j => ids[i] > ids[j]

UndoneByRollback(operation_id, user_id) ==
    \E c \in LogRows : /\ Successful(c) /\ "UndoOperationID" \in c.aux.cols
                       /\ c.aux.UndoOperationID = operation_id
                       /\ c.aux.UserID = user_id

C22_RollbackUndoesAll ==
    \A w \in Workers :
       (/\ RolledBack(w)
        /\ app.threads[w].raised \notin {"LockingError", "PreconditionError",
                                         "PostconditionError"}) =>
          LET t == app.threads[w]
          IN /\ t.response = "ok"
             /\ Range(t.passed) = Range(t.user_operations)
             /\ Len(t.passed) = Len(t.user_operations)
             /\ Descending(t.passed)
             /\ \A operation_id \in Range(t.user_operations) :
                   UndoneByRollback(operation_id, t.target_user_id)

(* What the loop does keep: the operations it has passed to undo_operation *)
(* are the newest of the list, each once, newest first.                    *)
C22_PassedNewestFirst ==
    \A w \in Workers :
       app.threads[w].endpoint = "rollback" =>
          LET t == app.threads[w]
          IN /\ Descending(t.passed)
             /\ Range(t.passed) \subseteq Range(t.user_operations)
             /\ \A p \in Range(t.passed), o \in Range(t.user_operations) :
                   o > p => o \in Range(t.passed)

(* The rollback of a user with two operations stops after the first undo. *)
C22_StopsAfterFirstUndo ==
    \E w \in Workers :
       /\ RolledBack(w)
       /\ app.threads[w].raised = "NameError"
       /\ Len(app.threads[w].user_operations) = 2
       /\ Len(app.threads[w].passed) = 1
       /\ ~UndoneByRollback(app.threads[w].user_operations[1],
                            app.threads[w].target_user_id)

(***************************************************************************)
(* C23: every operation that rollback passes to undo_operation is an       *)
(* operation of the target user whose own log row does not have the status *)
(* FAILED and that is not undone when it is passed.                        *)
(***************************************************************************)
Passes(w) ==
    /\ app'.threads[w].endpoint = "rollback"
    /\ Len(app'.threads[w].passed) = Len(app.threads[w].passed) + 1

LastPassed(w) == app'.threads[w].passed[Len(app'.threads[w].passed)]

LogRow(operation_id) == CHOOSE c \in LogRows : c.key = operation_id

HasFailed(c) == "Status" \in c.aux.cols /\ c.aux.Status = FAILED

C23_RollbackPassesOnlyEffective ==
    [][\A w \in Workers :
          Passes(w) =>
             /\ LogRow(LastPassed(w)).aux.UserID = app.threads[w].target_user_id
             /\ ~HasFailed(LogRow(LastPassed(w)))
             /\ LastPassed(w) \notin Undone(table)]_vars

(* What does hold: the operations passed are edits of the target user that *)
(* were not undone when the list was read.                                 *)
C23_PassedWereListed ==
    \A w \in Workers :
       \A operation_id \in Range(app.threads[w].passed) :
          /\ LogRow(operation_id).aux.UserID = app.threads[w].target_user_id
          /\ operation_id \in Originals(table)
          /\ operation_id \notin Undone(app.threads[w].log_rows)

(* An operation that another client has undone after the list was read is  *)
(* passed all the same.                                                    *)
C23_NeverPassesUndone ==
    [][\A w \in Workers : Passes(w) => LastPassed(w) \notin Undone(table)]_vars

(***************************************************************************)
(* C24: whatever is on the message bus are the new L2 IDs, at least one,   *)
(* of an edit whose conditional write has been applied; an edit that was   *)
(* rejected or that failed has nothing on the bus.                         *)
(***************************************************************************)
RowKeys(rows) == {rows[i].key : i \in 1..Len(rows)}

C24_PublishedAfterCommit ==
    \A m \in app.bus :
       /\ m.new_lvl2_ids # {}
       /\ \E c \in commits :
             /\ c.operation_id = m.operation_id
             /\ m.new_lvl2_ids \subseteq RowKeys(c.rows)

C24_Witness ==
    /\ app.bus # {}
    /\ \E w \in Workers :
          /\ app.threads[w].pc = "responded"
          /\ wk[w].outcome = "LockingError"
          /\ Len(wk[w].new_lvl2_ids) > 0
          /\ \A m \in app.bus : m.operation_id # wk[w].operation_id

(***************************************************************************)
(* C25: a request whose edit has committed is answered with the result of  *)
(* the edit, whether or not the publication of its new L2 IDs could be     *)
(* delivered, and its rows stay in the store.                              *)
(***************************************************************************)
AnsweredAfterCommit(w) ==
    /\ app.threads[w].pc = "responded"
    /\ app.threads[w].raised \in {"none", "PublishError"}
    /\ wk[w].outcome = "ok"
    /\ \E c \in commits : c.operation_id = wk[w].operation_id

C25_PublishFailureKeepsResult ==
    \A w \in Workers :
       AnsweredAfterCommit(w) =>
          /\ app.threads[w].response = "ok"
          /\ \A c \in commits :
                c.operation_id = wk[w].operation_id => Range(c.rows) \subseteq table

(* What does hold: the rows of a committed edit stay in the store when the *)
(* publication fails.                                                      *)
C25_RowsStayCommitted ==
    \A w \in Workers :
       (AnsweredAfterCommit(w) /\ app.threads[w].raised = "PublishError") =>
          \A c \in commits :
             c.operation_id = wk[w].operation_id => Range(c.rows) \subseteq table

C25_UndoFailsAfterCommit ==
    \E w \in Workers :
       /\ AnsweredAfterCommit(w)
       /\ app.threads[w].endpoint = "undo"
       /\ app.threads[w].response = "PublishError"

(***************************************************************************)
(* C26: for every table at most one ChunkedGraph handle is constructed and *)
(* at most one handler is attached to its logger, and every call of get_cg *)
(* for the table returns the same handle.                                  *)
(***************************************************************************)
Constructions(table_id) ==
    Cardinality({i \in 1..Len(app.constructed) : app.constructed[i] = table_id})

C26_OneHandlePerTable ==
    \A table_id \in TableIds :
       /\ Constructions(table_id) <= 1
       /\ app.handlers[table_id] <= 1
       /\ \A r1, r2 \in app.returned :
             (r1[1] = table_id /\ r2[1] = table_id) => r1[2] = r2[2]

(* Two callers of one table hold different handles. *)
C26_TwoHandlesReturned ==
    \E r1, r2 \in app.returned : r1[1] = r2[1] /\ r1[2] # r2[2]

(* Calls that do not overlap share the handle of the first. *)
C26_SequentialCallsShare ==
    \E table_id \in TableIds :
       /\ Constructions(table_id) = 1
       /\ Cardinality({r \in app.returned : r[1] = table_id}) = 1
       /\ started = MaxGets
       /\ \A w \in Workers : app.threads[w].table_id = table_id /\ app.threads[w].pc = "idle"

(***************************************************************************)
(* C27: the mutation list of every bulk_write of an edit starts with the   *)
(* log row of the edit, and the rows behind it are the hierarchy           *)
(* mutations: no second log row, and the rows of every new root and of     *)
(* every new L2 node.                                                      *)
(***************************************************************************)
LogRowFirst(rows, operation_id) ==
    /\ Len(rows) >= 2
    /\ rows[1].col = "Log"
    /\ rows[1].key = operation_id
    /\ \A i \in 2..Len(rows) : rows[i].col # "Log"

C27_LogRowFirst ==
    /\ \A a \in attempts : LogRowFirst(a.rows, a.operation_id)
    /\ \A w \in Workers :
          wk[w].pc = "write" =>
             /\ LogRowFirst(wk[w].rows, wk[w].operation_id)
             /\ \A n \in Range(wk[w].new_root_ids) \cup Range(wk[w].new_lvl2_ids) :
                   \E i \in 2..Len(wk[w].rows) :
                      wk[w].rows[i].col = "Child" /\ wk[w].rows[i].key = n

C27_Witness ==
    \E c1, c2 \in commits :
       /\ c1.kind = "merge" /\ LogRowFirst(c1.rows, c1.operation_id)
       /\ c2.kind = "multicut" /\ LogRowFirst(c2.rows, c2.operation_id)

C27_WitnessSplit ==
    \E c \in commits : c.kind = "split" /\ LogRowFirst(c.rows, c.operation_id)

(***************************************************************************)
(* C28: from_log_record decides by the columns AddedEdge, RemovedEdge and  *)
(* BoundingBoxOffset alone: AddedEdge gives a merge; otherwise RemovedEdge *)
(* gives a split, or a multicut when multicut_as_split is false and the    *)
(* record has BoundingBoxOffset; neither gives PreconditionError.          *)
(***************************************************************************)
Decoded == app.pc = "decoded"

KindByColumns(cols, multicut_as_split) ==
    IF "AddedEdge" \in cols THEN "merge"
    ELSE IF "RemovedEdge" \in cols
    THEN IF multicut_as_split \/ "BoundingBoxOffset" \notin cols THEN "split"
         ELSE "multicut"
    ELSE "PreconditionError"

Outcome(result) == IF result.raised = "none" THEN result.operation.kind ELSE result.raised

C28_KindFromEdgeColumns ==
    Decoded => Outcome(app.result) = KindByColumns(app.log_record.cols, app.multicut_as_split)

(* What does hold: the decision is as described for the records that have  *)
(* every column from_log_record reads on its way.                          *)
C28_KindWhenReadable ==
    (/\ Decoded
     /\ ReadFirst \subseteq app.log_record.cols
     /\ "AddedEdge" \in app.log_record.cols => "Affinity" \in app.log_record.cols) =>
       Outcome(app.result) = KindByColumns(app.log_record.cols, app.multicut_as_split)

C28_DecodesMulticut ==
    Decoded /\ Outcome(app.result) = "multicut"

(***************************************************************************)
(* C29: the log record of a merge or a split decodes to an operation of    *)
(* the same kind with the same user, the same edges and, for a merge, the  *)
(* same affinities.                                                        *)
(***************************************************************************)
C29_MergeSplitRoundTrip ==
    (Decoded /\ app.operation.kind \in {"merge", "split"}) =>
       /\ app.result.raised = "none"
       /\ app.result.operation.kind = app.operation.kind
       /\ app.result.operation.user_id = app.operation.user_id
       /\ app.result.operation.edges = app.operation.edges
       /\ app.operation.kind = "merge" =>
             app.result.operation.affinities = app.operation.affinities

(* No log record of a merge or a split decodes at all. *)
C29_NoRoundTrip ==
    (Decoded /\ app.operation.kind \in {"merge", "split"}) => app.result.raised = "KeyError"

(***************************************************************************)
(* C30: the log record of a multicut has the removed edges of the min-cut, *)
(* and it decodes to an operation that removes exactly these edges.        *)
(***************************************************************************)
C30_MulticutLogsRemovedEdges ==
    (Decoded /\ app.operation.kind = "multicut") =>
       /\ "RemovedEdge" \in app.log_record.cols
       /\ app.log_record.edges = app.operation.edges
       /\ app.result.raised = "none"
       /\ app.result.operation.edges = app.operation.edges

(* No log record of a multicut decodes. *)
C30_NoReplay ==
    (Decoded /\ app.operation.kind = "multicut") =>
       /\ "RemovedEdge" \notin app.log_record.cols
       /\ app.result.raised = "PreconditionError"


(* C31 (as stated): every committed edit holds its locks on roots that are *)
(* still latest roots when it commits: a root replaced by another edit     *)
(* between the edit's get_roots and its lock acquisition never carries a   *)
(* commit.                                                                 *)
LatestRoots(T, t) == {get_root(T, s, t) : s \in SV}

C31_CommitsOnLatestRoots ==
    [][\A w \in Workers :
          Commits(w) => Range(wk[w].root_ids) \subseteq LatestRoots(table, clock)]_vars

(***************************************************************************)
(* Construction of the operations from what the caller passes: Merge and   *)
(* Split take a list of edges [source, sink] and transpose it into          *)
(* source_ids and sink_ids, Multicut takes the two lists themselves.       *)
(***************************************************************************)
EdgeListRequest(k, edge_list) ==
    [kind |-> k, user_id |-> "u1", edge_list |-> edge_list, source_ids |-> <<>>, sink_ids |-> <<>>]

MulticutRequest(source_ids, sink_ids) ==
    [kind |-> "multicut", user_id |-> "u1", edge_list |-> <<>>,
     source_ids |-> source_ids, sink_ids |-> sink_ids]

(* What callers construct: single edges, a self-loop, chains, two edges    *)
(* that share their first endpoint, and multicuts with a supervoxel on     *)
(* both sides.                                                             *)
ConstructRequests ==
    {EdgeListRequest("merge", <<<<1, 2>>>>), EdgeListRequest("split", <<<<2, 3>>>>),
     EdgeListRequest("merge", <<<<1, 1>>>>), EdgeListRequest("split", <<<<3, 3>>>>),
     EdgeListRequest("merge", <<<<1, 2>>, <<2, 3>>>>),
     EdgeListRequest("split", <<<<2, 3>>, <<3, 4>>>>),
     EdgeListRequest("merge", <<<<3, 1>>, <<2, 3>>>>),
     EdgeListRequest("merge", <<<<1, 2>>, <<1, 3>>>>),
     MulticutRequest(<<1, 2>>, <<2>>),
     MulticutRequest(<<2>>, <<3, 2>>)}

transpose(edge_list) ==
    [source_ids |-> {edge_list[i][1] : i \in DOMAIN edge_list},
     sink_ids |-> {edge_list[i][2] : i \in DOMAIN edge_list}]

GraphEditOperation_init(r) ==
    IF r.kind = "multicut"
    THEN [NoEdit EXCEPT !.kind = r.kind, !.user_id = r.user_id,
                        !.source_ids = Range(r.source_ids), !.sink_ids = Range(r.sink_ids),
                        !.box = Range(r.source_ids) \cup Range(r.sink_ids)]
    ELSE [NoEdit EXCEPT !.kind = r.kind, !.user_id = r.user_id,
                        !.source_ids = transpose(r.edge_list).source_ids,
                        !.sink_ids = transpose(r.edge_list).sink_ids,
                        !.edges = {EdgeKey(r.edge_list[i][1], r.edge_list[i][2]) :
                                      i \in DOMAIN r.edge_list}]

(* A caller constructs an operation and applies it. *)
construct_and_apply(w) ==
    /\ wk[w].pc \in {"idle", "done"}
    /\ started < MaxOps
    /\ \E r \in ConstructRequests : StartEdit(w, GraphEditOperation_init(r))
    /\ started' = started + 1
    /\ UNCHANGED <<storeVars, lock, clock, expiries, attempts, commits, metaVars, appVars, ingest>>

ConstructNext ==
    \/ \E w \in Workers : construct_and_apply(w)
    \/ \E w \in Workers : RootLock_lock(w)
    \/ \E w \in Workers : apply_edit(w)
    \/ \E w \in Workers : apply_bulk_write(w)
    \/ \E w \in Workers : RootLock_exit(w)

ConstructSpec == Init /\ [][ConstructNext]_vars

(* C32: constructing a merge or split whose edge list uses one supervoxel  *)
(* as the first endpoint of an edge and as the second endpoint of an edge  *)
(* (a self-loop or a chain), or a multicut whose source_ids and sink_ids   *)
(* share a supervoxel, raises PreconditionError before any lock is taken   *)
(* and before any row is written.                                          *)
BothEnds(r) ==
    IF r.kind = "multicut"
    THEN \E i \in DOMAIN r.source_ids, j \in DOMAIN r.sink_ids : r.source_ids[i] = r.sink_ids[j]
    ELSE \E i, j \in DOMAIN r.edge_list : r.edge_list[i][1] = r.edge_list[j][2]

Constructs(w, r) ==
    /\ wk[w].pc \in {"idle", "done"}
    /\ wk'[w] # wk[w]
    /\ wk'[w].edit = GraphEditOperation_init(r)

C32_SharedEndpointRaises ==
    [][\A w \in Workers : \A r \in ConstructRequests :
          (Constructs(w, r) /\ BothEnds(r)) =>
             /\ wk'[w].pc = "done"
             /\ wk'[w].outcome = "PreconditionError"
             /\ UNCHANGED <<table, lock, counter, minted, nextOp, clock>>]_vars

C32_Witness ==
    \E w \in Workers :
       /\ wk[w].pc = "done"
       /\ wk[w].outcome = "PreconditionError"
       /\ wk[w].edit = GraphEditOperation_init(EdgeListRequest("merge", <<<<1, 2>>, <<2, 3>>>>))

C32_WitnessMulticut ==
    \E w \in Workers :
       /\ wk[w].pc = "done"
       /\ wk[w].outcome = "PreconditionError"
       /\ wk[w].edit = GraphEditOperation_init(MulticutRequest(<<1, 2>>, <<2>>))

(* C33: when a task has written the parents of its components of a         *)
(* layer-k chunk, a component of size 1 has its parent at the top layer    *)
(* n_layers if use_skip_connections is set, and every other component has  *)
(* its parent at layer k in the given parent chunk.                        *)
WrittenComponents ==
    UNION {Range(ingest.tasks[i].ccs) : i \in {j \in 1..Len(ingest.tasks) : ingest.tasks[j].pc = "done"}}

Promoted(node_ids) == use_skip_connections /\ Cardinality(node_ids) = 1

C33_SkipConnectionLayer ==
    \A node_ids \in WrittenComponents : \A node_id \in node_ids :
       LET p == get_parent(table, node_id, clock)
       IN /\ p # NoNode
          /\ get_chunk_layer(p) = IF Promoted(node_ids) THEN n_layers ELSE ingest.layer_id
          /\ ~Promoted(node_ids) => get_chunk_id(p) = ingest.parent_chunk_id

C33_Witness ==
    /\ ingest.layer_id < n_layers
    /\ \E node_ids \in WrittenComponents :
          Promoted(node_ids) /\ \A node_id \in node_ids :
             get_chunk_layer(get_parent(table, node_id, clock)) = n_layers

C33_WitnessSameLayer ==
    /\ ingest.layer_id < n_layers
    /\ \E node_ids \in WrittenComponents :
          /\ Cardinality(node_ids) > 1
          /\ \A node_id \in node_ids : get_chunk_layer(get_parent(table, node_id, clock)) = ingest.layer_id
    /\ \E node_ids \in WrittenComponents :
          /\ Cardinality(node_ids) = 1 /\ ~use_skip_connections
          /\ \A node_id \in node_ids : get_chunk_layer(get_parent(table, node_id, clock)) = ingest.layer_id

(* C34 (as stated): _write_components mints exactly one parent ID per      *)
(* connected component and writes exactly one Parent value per child node  *)
(* and one Child row per component, for every layer_id from 3 up to and    *)
(* including n_layers.                                                     *)
RowsOf(task, col) == {j \in 1..Len(task.rows) : task.rows[j].col = col}

C34_OneParentPerComponent ==
    \A i \in 1..Len(ingest.tasks) :
       LET task == ingest.tasks[i]
       IN task.pc \in {"write", "done"} =>
             /\ Len(task.parent_ids) = Len(task.ccs)
             /\ Cardinality(RowsOf(task, "Child")) = Len(task.ccs)
             /\ \A node_ids \in Range(task.ccs) : \A node_id \in node_ids :
                   Cardinality({j \in RowsOf(task, "Parent") : task.rows[j].key = node_id}) = 1

(* C35: add_layer partitions the latest child nodes of the children chunks *)
(* into connected components under the cross-chunk edges of the layer:     *)
(* every child is in exactly one component, a child without a cross edge   *)
(* is a component of its own, and two children get the same parent if and  *)
(* only if a path of cross edges connects them.                            *)
Children == _read_children_chunks(table, ingest.layer_id, clock)

CrossEdges == _get_cross_edges(table, ingest.layer_id, clock)

Adjacent(a, b) == <<a, b>> \in CrossEdges \/ <<b, a>> \in CrossEdges

PathBetween(a, b) ==
    \E n \in 1..Cardinality(Children) : \E path \in [1..n -> Children] :
       /\ path[1] = a
       /\ path[n] = b
       /\ \A j \in 1..(n - 1) : Adjacent(path[j], path[j + 1])

ComponentSlots ==
    UNION {{<<i, j>> : j \in 1..Len(ingest.tasks[i].ccs)} : i \in 1..Len(ingest.tasks)}

AllWritten ==
    /\ ingest.pc = "run"
    /\ ingest.tasks # <<>>
    /\ \A i \in 1..Len(ingest.tasks) : ingest.tasks[i].pc = "done"

C35_ComponentsPartitionChildren ==
    ingest.pc = "run" =>
       /\ \A c \in Children :
             Cardinality({x \in ComponentSlots : c \in ingest.tasks[x[1]].ccs[x[2]]}) = 1
       /\ \A c \in Children :
             (\A d \in Children : ~Adjacent(c, d)) =>
                \E x \in ComponentSlots : ingest.tasks[x[1]].ccs[x[2]] = {c}
       /\ AllWritten =>
             \A c, d \in Children :
                (get_parent(table, c, clock) = get_parent(table, d, clock)) <=> PathBetween(c, d)

C35_Witness ==
    /\ AllWritten
    /\ \E c, d, e \in Children :
          /\ c # d /\ ~Adjacent(c, d) /\ PathBetween(c, d)
          /\ get_parent(table, c, clock) = get_parent(table, d, clock)
          /\ get_parent(table, e, clock) # get_parent(table, d, clock)

C35_WitnessIsolated ==
    /\ AllWritten
    /\ \E c \in Children : \A d \in Children \ {c} :
          ~Adjacent(c, d) /\ get_parent(table, c, clock) # get_parent(table, d, clock)

(***************************************************************************)
(* The chunk-parallel read of _read_children_chunks: one task per child    *)
(* chunk in a pool of min(len(multi_args), cpu_count()) processes; every   *)
(* task range-reads its chunk, filters the rows and appends the result to  *)
(* the list of the manager process; the caller concatenates the list when  *)
(* all tasks are done.                                                     *)
(***************************************************************************)
MaxRows == 3

ReadLayer == 3

ChunkRowIds == {NodeId(ReadLayer - 1, chunk, seg) : chunk \in 0..1, seg \in 1..MaxRows}

ChildSets == {{}, {1}, {2}, {1, 2}}

(* The Child rows of the child chunks: a row is absent or holds one of the *)
(* child sets; rows with the children {2} and {1, 2} share their largest   *)
(* child.                                                                  *)
ChunkTables ==
    {{Cell("Child", r, 0, f[r]) : r \in {q \in ChunkRowIds : f[q] # {}}} :
        f \in [ChunkRowIds -> ChildSets]}

NoTask == [pc |-> "off", row_ids |-> <<>>, max_children_ids |-> <<>>, appended |-> <<>>]

ReadInit ==
    /\ n_layers = 3
    /\ use_skip_connections = FALSE
    /\ table \in ChunkTables
    /\ counter = ZeroCounter
    /\ minted = {}
    /\ mintCount = 0
    /\ lock = <<>>
    /\ clock = 0
    /\ nextOp = 0
    /\ started = 0
    /\ expiries = 0
    /\ wk = [w \in Workers |-> IdleWorker]
    /\ attempts = {}
    /\ commits = {}
    /\ ingest = NoIngest
    /\ app = [pc |-> "idle", children_coords |-> {},
              tasks |-> [c \in ChildrenChunks(ReadLayer) |-> NoTask],
              children_ids_shared |-> <<>>, children_ids |-> <<>>]

(* Variant of the append in which the list a task sends back replaces the  *)
(* list of the manager.                                                    *)
manager_list_append_overwrites(children_ids_shared, row_ids) == <<row_ids>>

(* manager.list().append: served by the manager process, one call at a     *)
(* time.                                                                   *)
manager_list_append(children_ids_shared, row_ids) == Append(children_ids_shared, row_ids)

RECURSIVE np_concatenate(_)
np_concatenate(arrays) ==
    IF arrays = <<>> THEN <<>> ELSE Head(arrays) \o np_concatenate(Tail(arrays))

(* _read_children_chunks up to the start of the pool. *)
_read_children_chunks_call(children_coords) ==
    /\ app.pc = "idle"
    /\ children_coords # {}
    /\ app' = [app EXCEPT
                  !.pc = "run", !.children_coords = children_coords,
                  !.tasks = [c \in ChildrenChunks(ReadLayer) |->
                                IF c \in children_coords THEN [NoTask EXCEPT !.pc = "queued"]
                                ELSE NoTask]]
    /\ UNCHANGED <<storeVars, editVars, metaVars, ingest>>

RunningTasks == {c \in ChildrenChunks(ReadLayer) : app.tasks[c].pc = "read"}

(* _read_chunk_helper and the first half of _read_chunk: the range read. *)
_read_chunk_helper(c) ==
    /\ app.pc = "run"
    /\ app.tasks[c].pc = "queued"
    /\ Cardinality(RunningTasks) < Min({Cardinality(app.children_coords), NCpu})
    /\ LET row_ids == SortedSeq(range_read_chunk(table, c))
       IN app' = [app EXCEPT
                     !.tasks[c].pc = "read",
                     !.tasks[c].row_ids = row_ids,
                     !.tasks[c].max_children_ids =
                         [i \in 1..Len(row_ids) |-> Max(get_children(table, row_ids[i], clock))]]
    /\ UNCHANGED <<storeVars, editVars, metaVars, ingest>>

(* The second half of _read_chunk: filter and append to the shared list. *)
_read_chunk_append(c) ==
    /\ app.pc = "run"
    /\ app.tasks[c].pc = "read"
    /\ LET row_ids == app.tasks[c].row_ids
           segment_ids == [i \in 1..Len(row_ids) |-> get_segment_id(row_ids[i])]
           filtered == _filter_latest_ids(row_ids, segment_ids, app.tasks[c].max_children_ids)
       IN app' = [app EXCEPT
                     !.tasks[c].pc = "done",
                     !.tasks[c].appended = filtered,
                     !.children_ids_shared = manager_list_append(@, filtered)]
    /\ UNCHANGED <<storeVars, editVars, metaVars, ingest>>

_read_children_chunks_return ==
    /\ app.pc = "run"
    /\ \A c \in app.children_coords : app.tasks[c].pc = "done"
    /\ app' = [app EXCEPT !.pc = "returned",
                          !.children_ids = np_concatenate(app.children_ids_shared)]
    /\ UNCHANGED <<storeVars, editVars, metaVars, ingest>>

ReadNext ==
    \/ \E children_coords \in SUBSET ChildrenChunks(ReadLayer) :
          _read_children_chunks_call(children_coords)
    \/ \E c \in ChildrenChunks(ReadLayer) : _read_chunk_helper(c)
    \/ \E c \in ChildrenChunks(ReadLayer) : _read_chunk_append(c)
    \/ _read_children_chunks_return

ReadSpec == ReadInit /\ [][ReadNext]_vars

(* C36: of the rows of a chunk, _filter_latest_ids keeps for every largest *)
(* child ID exactly one row, the one with the largest segment ID among the *)
(* rows that share it; no two kept rows share a largest child ID and every *)
(* largest child ID of the input has its row.                              *)
DoneTasks == {c \in ChildrenChunks(ReadLayer) : app.tasks[c].pc = "done"}

MaxChildOf(task, row_id) ==
    task.max_children_ids[CHOOSE i \in 1..Len(task.row_ids) : task.row_ids[i] = row_id]

SharingRows(task, max_child_id) ==
    {r \in Range(task.row_ids) : MaxChildOf(task, r) = max_child_id}

C36_KeepsLargestSegmentPerMaxChild ==
    \A c \in DoneTasks :
       LET task == app.tasks[c]
           kept == task.appended
       IN /\ Range(kept) \subseteq Range(task.row_ids)
          /\ \A i, j \in 1..Len(kept) : i # j => kept[i] # kept[j]
          /\ \A max_child_id \in Range(task.max_children_ids) :
                /\ Cardinality(Range(kept) \cap SharingRows(task, max_child_id)) = 1
                /\ \A r \in Range(kept) \cap SharingRows(task, max_child_id) :
                      \A q \in SharingRows(task, max_child_id) :
                         get_segment_id(q) <= get_segment_id(r)

C36_Witness ==
    \E c \in DoneTasks :
       LET task == app.tasks[c]
       IN /\ Len(task.row_ids) = 3
          /\ Len(task.appended) = 2
          /\ MaxChildOf(task, task.row_ids[1]) = MaxChildOf(task, task.row_ids[3])
          /\ task.row_ids[3] \in Range(task.appended)
          /\ task.row_ids[1] \notin Range(task.appended)

(* C37: the chunk-parallel read loses and duplicates nothing: whatever the *)
(* order in which the tasks append, every row ID is returned as many times *)
(* as there are requested chunks in whose filtered rows it lies.           *)
LatestRows(T, chunk_id, t) ==
    LET rows == range_read_chunk(T, chunk_id)
    IN {r \in rows :
           \A q \in rows :
              (q # r /\ Max(get_children(T, q, t)) = Max(get_children(T, r, t))) =>
                 get_segment_id(q) < get_segment_id(r)}

Occurrences(seq, x) == Cardinality({i \in 1..Len(seq) : seq[i] = x})

C37_ParallelReadIsExact ==
    app.pc = "returned" =>
       \A x \in ChunkRowIds :
          Occurrences(app.children_ids, x) =
             Cardinality({c \in app.children_coords : x \in LatestRows(table, c, clock)})

C37_Witness ==
    /\ app.pc = "returned"
    /\ Len(app.children_ids_shared) = 2
    /\ Len(app.children_ids) >= 3
    /\ get_chunk_id(app.children_ids[1]) = NodeId(ReadLayer - 1, 1, 0)

C37_WitnessOtherOrder ==
    /\ app.pc = "returned"
    /\ Len(app.children_ids_shared) = 2
    /\ Len(app.children_ids) >= 3
    /\ get_chunk_id(app.children_ids[1]) = NodeId(ReadLayer - 1, 0, 0)
    /\ get_chunk_id(app.children_ids[Len(app.children_ids)]) = NodeId(ReadLayer - 1, 1, 0)

(* C38 (as stated): the handle cache is keyed by table_id also for the     *)
(* request-log database: get_log_db(table_id) returns a handle that was    *)
(* constructed for that table_id, and get_cg never returns a ChunkedGraph  *)
(* handle for a table_id other than the one it was built for.              *)
C38_HandlesMatchTable ==
    /\ \A r \in app.log_returned : app.log_dbs[r[2]] = r[1]
    /\ \A r \in app.returned : app.constructed[r[2]] = r[1]

(* The half of C38 that get_cg keeps. *)
C38_GraphHandlesMatchTable ==
    \A r \in app.returned : app.constructed[r[2]] = r[1]

(***************************************************************************)
(* toboolean (app/app_utils.py).  A Python value is its type and its       *)
(* repr as a sequence of characters.                                       *)
(***************************************************************************)
PyBool(b) == [type |-> "bool", v |-> IF b THEN <<"T", "r", "u", "e">> ELSE <<"F", "a", "l", "s", "e">>]

PyInt(digit) == [type |-> "int", v |-> <<digit>>]

PyNone == [type |-> "NoneType", v |-> <<>>]

PyStr(chars) == [type |-> "str", v |-> chars]

UpperOf ==
    [c \in {"t", "r", "u", "e", "f", "a", "l", "s"} |->
        CASE c = "t" -> "T" [] c = "r" -> "R" [] c = "u" -> "U" [] c = "e" -> "E"
          [] c = "f" -> "F" [] c = "a" -> "A" [] c = "l" -> "L" [] c = "s" -> "S"]

(* Every spelling of a word in upper and lower case letters. *)
CaseVariants(word) ==
    {s \in [1..Len(word) -> {"t", "r", "u", "e", "f", "a", "l", "s", "T", "R", "U", "E", "F", "A", "L", "S"}] :
        \A i \in 1..Len(word) : s[i] \in {word[i], UpperOf[word[i]]}}

BooleanInputs ==
    {PyBool(TRUE), PyBool(FALSE), PyNone, PyInt("0"), PyInt("1"), PyInt("2")}
       \cup {PyStr(s) : s \in CaseVariants(<<"t", "r", "u", "e">>)}
       \cup {PyStr(s) : s \in CaseVariants(<<"f", "a", "l", "s", "e">>)}
       \cup {PyStr(s) : s \in {<<>>, <<"1">>, <<"0">>, <<"2">>, <<"y", "e", "s">>, <<"t", "r", "u">>,
                                <<" ", "t", "r", "u", "e">>, <<"n", "o">>}}

BooleanInit ==
    /\ n_layers = 3
    /\ use_skip_connections = FALSE
    /\ table = {}
    /\ counter = ZeroCounter
    /\ minted = {}
    /\ mintCount = 0
    /\ lock = <<>>
    /\ clock = 0
    /\ nextOp = 0
    /\ started = 0
    /\ expiries = 0
    /\ wk = [w \in Workers |-> IdleWorker]
    /\ attempts = {}
    /\ commits = {}
    /\ ingest = NoIngest
    /\ \E value \in BooleanInputs : app = [pc |-> "call", value |-> value, result |-> "none"]

(* bool(value): the truth value of `not value` negated. *)
truth(value) ==
    CASE value.type = "bool" -> value = PyBool(TRUE)
      [] value.type = "int" -> value.v # <<"0">>
      [] value.type = "str" -> Len(value.v) > 0
      [] OTHER -> FALSE

(* str.lower on one character. *)
lower_char(c) ==
    IF \E l \in DOMAIN UpperOf : UpperOf[l] = c
    THEN CHOOSE l \in DOMAIN UpperOf : UpperOf[l] = c
    ELSE c

lower(chars) == [i \in 1..Len(chars) |-> lower_char(chars[i])]

toboolean(value) ==
    IF ~truth(value) THEN "ValueError"
    ELSE IF value.type = "bool" THEN (IF value = PyBool(TRUE) THEN "True" ELSE "False")
    ELSE IF value.type # "str" THEN "ValueError"
    ELSE IF lower(value.v) \in {<<"t", "r", "u", "e">>, <<"1">>} THEN "True"
    ELSE IF lower(value.v) \in {<<"f", "a", "l", "s", "e">>, <<"0">>} THEN "False"
    ELSE "ValueError"

toboolean_call ==
    /\ app.pc = "call"
    /\ app' = [app EXCEPT !.pc = "returned", !.result = toboolean(app.value)]
    /\ UNCHANGED <<storeVars, editVars, metaVars, ingest>>

BooleanNext == toboolean_call

BooleanSpec == BooleanInit /\ [][BooleanNext]_vars

(* C39 (as stated): toboolean returns a bool unchanged, returns True for   *)
(* the strings 'true' and '1' and False for the strings 'false' and '0'    *)
(* in any letter case, and raises ValueError for every other input.        *)
StatedResult(value) ==
    IF value = PyBool(TRUE) THEN "True"
    ELSE IF value = PyBool(FALSE) THEN "False"
    ELSE IF value.type = "str" /\ (value.v \in CaseVariants(<<"t", "r", "u", "e">>) \/ value.v = <<"1">>)
    THEN "True"
    ELSE IF value.type = "str" /\ (value.v \in CaseVariants(<<"f", "a", "l", "s", "e">>) \/ value.v = <<"0">>)
    THEN "False"
    ELSE "ValueError"

C39_ToBooleanAsStated ==
    app.pc = "returned" => app.result = StatedResult(app.value)

(* Every input but False gets the stated result. *)
C39_AsStatedButFalse ==
    (app.pc = "returned" /\ app.value # PyBool(FALSE)) => app.result = StatedResult(app.value)

=============================================================================
